---- MODULE Spec2Model ----
(***************************************************************************)
(* badgerdict: a dictionary-style wrapper around an embedded key-value     *)
(* engine (BadgerDict), and a lock-guarded load/mutate/save protocol for   *)
(* persistent records (PersistentObject), src/src/badgerdict/__init__.py.  *)
(*                                                                         *)
(* Python values are records [t |-> type name, v |-> sequence of naturals]:*)
(* the content bytes of a byte-like value, the code points of a str, the   *)
(* number held by an int or by a Counter record {"value": n}.              *)
(***************************************************************************)
EXTENDS Integers, Sequences, FiniteSets, TLC

\* ------------------------------------------------------------------ bounds
MaxLen == 2        \* longest byte string / text drawn as an input
MaxVal == 2        \* largest number drawn as an input value

\* --------------------------------------------------------- program constants
_VALUE_RAW == 0
_VALUE_STR == 1
_VALUE_PICKLED == 2

\* ------------------------------------------------------------ Python values
ByteLikeTypes == {"bytes", "bytearray", "memoryview"}

PyVal(t, v) == [t |-> t, v |-> v]
PyBytes(b) == PyVal("bytes", b)
PyNone == PyVal("NoneType", <<>>)

\* Outcome of a call: a returned value, or a raised exception.
\* msg is the text an exception carries (character codes), where it matters.
Ok(v) == [ok |-> TRUE, val |-> v, exc |-> "none", msg |-> <<>>]
ErrMsg(e, m) == [ok |-> FALSE, val |-> <<>>, exc |-> e, msg |-> m]
Err(e) == ErrMsg(e, <<>>)

\* Python's == between two values of the model: byte-like values compare by
\* content whatever their type (b"a" == bytearray(b"a")), others by type and
\* content.
PyEq(a, b) ==
    IF a.t \in ByteLikeTypes /\ b.t \in ByteLikeTypes THEN a.v = b.v ELSE a = b

SeqsUpTo(S, n) == UNION {[1..k -> S] : k \in 0..n}

\* ------------------------------------------------------------------- UTF-8
IsSurrogate(cp) == cp >= 55296 /\ cp <= 57343

Utf8EncodeChar(cp) ==
    IF cp < 128 THEN <<cp>>
    ELSE IF cp < 2048 THEN <<192 + (cp \div 64), 128 + (cp % 64)>>
    ELSE IF cp < 65536
         THEN <<224 + (cp \div 4096), 128 + ((cp \div 64) % 64), 128 + (cp % 64)>>
    ELSE <<240 + (cp \div 262144), 128 + ((cp \div 4096) % 64),
           128 + ((cp \div 64) % 64), 128 + (cp % 64)>>

RECURSIVE Utf8EncodeSeq(_)
Utf8EncodeSeq(s) ==
    IF s = <<>> THEN <<>> ELSE Utf8EncodeChar(Head(s)) \o Utf8EncodeSeq(Tail(s))

\* str.encode("utf-8"): strict, a lone surrogate raises UnicodeEncodeError.
Utf8Encode(s) ==
    IF \E i \in 1..Len(s) : IsSurrogate(s[i])
    THEN Err("UnicodeEncodeError")
    ELSE Ok(Utf8EncodeSeq(s))

IsCont(b) == b >= 128 /\ b <= 191

\* bytes.decode("utf-8"): strict; the code points, or <<-1>> for ill-formed
\* input (overlong forms, surrogates and stray continuation bytes included).
RECURSIVE Utf8DecodeSeq(_)
Utf8DecodeSeq(b) ==
    IF b = <<>> THEN <<>>
    ELSE LET b1 == b[1]
             n == IF b1 < 128 THEN 1
                  ELSE IF b1 >= 194 /\ b1 <= 223 THEN 2
                  ELSE IF b1 >= 224 /\ b1 <= 239 THEN 3
                  ELSE IF b1 >= 240 /\ b1 <= 244 THEN 4
                  ELSE 0
         IN IF n = 0 \/ Len(b) < n \/ \E i \in 2..n : ~IsCont(b[i]) THEN <<-1>>
            ELSE LET cp == IF n = 1 THEN b1
                           ELSE IF n = 2 THEN (b1 - 192) * 64 + (b[2] - 128)
                           ELSE IF n = 3
                                THEN (b1 - 224) * 4096 + (b[2] - 128) * 64 + (b[3] - 128)
                           ELSE (b1 - 240) * 262144 + (b[2] - 128) * 4096
                                + (b[3] - 128) * 64 + (b[4] - 128)
                     rest == Utf8DecodeSeq(SubSeq(b, n + 1, Len(b)))
                 IN IF (n = 3 /\ cp < 2048) \/ (n = 4 /\ cp < 65536)
                       \/ IsSurrogate(cp) \/ cp > 1114111 \/ rest = <<-1>>
                    THEN <<-1>>
                    ELSE <<cp>> \o rest

Utf8Decode(b) ==
    LET cps == Utf8DecodeSeq(b)
    IN IF cps = <<-1>> THEN Err("UnicodeDecodeError") ELSE Ok(PyVal("str", cps))

\* ------------------------------------------------------------------ pickle
\* pickle.dumps(value, protocol=HIGHEST_PROTOCOL): a PROTO header (0x80, 5),
\* one opcode naming the type, the content, and STOP ('.').  Functions cannot
\* be pickled.
PickleOpcode(t) ==
    CASE t = "int" -> 75
      [] t = "dict" -> 125
      [] t = "NoneType" -> 78
      [] t = "tuple" -> 134
      [] t = "str" -> 140
      [] OTHER -> 67

PickleTypes == {"int", "dict", "NoneType", "tuple", "str"} \cup ByteLikeTypes

PickleDumps(value) ==
    IF value.t \notin PickleTypes THEN Err("PicklingError")
    ELSE Ok(<<128, 5, PickleOpcode(IF value.t \in ByteLikeTypes THEN "bytes" ELSE value.t)>>
            \o value.v \o <<46>>)

PickleLoads(data) ==
    IF Len(data) < 4 \/ data[1] # 128 \/ data[Len(data)] # 46
    THEN Err("UnpicklingError")
    ELSE LET content == SubSeq(data, 4, Len(data) - 1)
             ts == {t \in {"int", "dict", "NoneType", "tuple", "str"} :
                       PickleOpcode(t) = data[3]}
         IN IF ts = {} THEN Ok(PyBytes(content))
            ELSE Ok(PyVal(CHOOSE t \in ts : TRUE, content))

\* ------------------------------------------------------------- value codec
\* An encoder that hands the payload on without its tag byte.
_encode_value_untagged(auto_pickle, value) ==
    IF value.t \in ByteLikeTypes THEN Ok(value.v)
    ELSE IF value.t = "str" THEN Utf8Encode(value.v)
    ELSE IF ~auto_pickle THEN Err("TypeError")
    ELSE PickleDumps(value)

\* BadgerDict._encode_value
_encode_value(auto_pickle, value) ==
    IF value.t \in ByteLikeTypes THEN Ok(<<_VALUE_RAW>> \o value.v)
    ELSE IF value.t = "str"
    THEN LET payload == Utf8Encode(value.v)
         IN IF payload.ok THEN Ok(<<_VALUE_STR>> \o payload.val) ELSE payload
    ELSE IF ~auto_pickle THEN Err("TypeError")
    ELSE LET payload == PickleDumps(value)
         IN IF payload.ok THEN Ok(<<_VALUE_PICKLED>> \o payload.val) ELSE payload

\* A decoder that forgets to strip the tag byte from a RAW envelope.
_decode_value_keeps_tag(data) ==
    IF data = <<>> THEN Ok(PyBytes(<<>>))
    ELSE LET type_tag == data[1]
             payload == Tail(data)
         IN IF type_tag = _VALUE_RAW THEN Ok(PyBytes(data))
            ELSE IF type_tag = _VALUE_STR THEN Utf8Decode(payload)
            ELSE IF type_tag = _VALUE_PICKLED THEN PickleLoads(payload)
            ELSE Ok(PyBytes(data))

\* BadgerDict._decode_value
_decode_value(data) ==
    IF data = <<>> THEN Ok(PyBytes(<<>>))
    ELSE LET type_tag == data[1]
             payload == Tail(data)
         IN IF type_tag = _VALUE_RAW THEN Ok(PyBytes(payload))
            ELSE IF type_tag = _VALUE_STR THEN Utf8Decode(payload)
            ELSE IF type_tag = _VALUE_PICKLED THEN PickleLoads(payload)
            ELSE Ok(PyBytes(data))

\* ----------------------------------------------------------------- messages
\* Texts as sequences of character codes.
MsgNotFoundNeedle == <<110, 111, 116, 32, 102, 111, 117, 110, 100>>    \* "not found"
MsgKeyNotFound ==                                                      \* "Key not found"
    <<75, 101, 121, 32, 110, 111, 116, 32, 102, 111, 117, 110, 100>>
MsgDiskFull == <<100, 105, 115, 107, 32, 102, 117, 108, 108>>          \* "disk full"
MsgClosed ==                                            \* "badger dictionary is closed"
    <<98, 97, 100, 103, 101, 114, 32, 100, 105, 99, 116, 105, 111, 110, 97, 114, 121,
      32, 105, 115, 32, 99, 108, 111, 115, 101, 100>>
MsgUnknown ==                                           \* "unknown badger error"
    <<117, 110, 107, 110, 111, 119, 110, 32, 98, 97, 100, 103, 101, 114, 32, 101, 114,
      114, 111, 114>>
MsgOpenFailed ==                                        \* "failed to open badger dictionary"
    <<102, 97, 105, 108, 101, 100, 32, 116, 111, 32, 111, 112, 101, 110, 32, 98, 97,
      100, 103, 101, 114, 32, 100, 105, 99, 116, 105, 111, 110, 97, 114, 121>>

\* str.lower() on ASCII text, and the `needle in hay` substring test.
ToLower(text) == [i \in 1..Len(text) |-> IF text[i] >= 65 /\ text[i] <= 90
                                         THEN text[i] + 32 ELSE text[i]]
Contains(hay, needle) ==
    \E i \in 1..(Len(hay) - Len(needle) + 1) :
        SubSeq(hay, i, i + Len(needle) - 1) = needle

\* ------------------------------------------------------------ native engine
\* The engine behind the foreign-function boundary.  db is the stored data: a
\* function from the keys present to the bytes stored under them.  The Error
\* Register holds a C string or is null.  An engine choice e says whether the
\* call fails for a reason of the engine's own (e.fail, with e.err the
\* diagnostic then left in the register) and, when it does not, what the
\* register holds if the call has to report a missing key.  e.sticky says
\* whether the register still holds its text when it is read a second time
\* (the engine may clear it on a read, or keep it).
NullReg == [null |-> TRUE, text |-> <<>>]
Reg(text) == [null |-> FALSE, text |-> text]

NoFault == [fail |-> FALSE, err |-> Reg(MsgKeyNotFound), sticky |-> TRUE]
QuietMiss == [fail |-> FALSE, err |-> NullReg, sticky |-> TRUE]
Fault(reg) == [fail |-> TRUE, err |-> reg, sticky |-> TRUE]
FaultOnce(reg) == [fail |-> TRUE, err |-> reg, sticky |-> FALSE]

EngineFaults == {Fault(Reg(MsgDiskFull))}
EngineChoices == {NoFault} \cup EngineFaults
GetChoices == {NoFault, QuietMiss, Fault(Reg(MsgDiskFull))}
DeleteChoices == EngineChoices \cup {FaultOnce(Reg(MsgDiskFull))}

Put(db, kb, vb) == [x \in DOMAIN db \cup {kb} |-> IF x = kb THEN vb ELSE db[x]]
Remove(db, kb) == [x \in DOMAIN db \ {kb} |-> db[x]]
EmptyDb == [x \in {} |-> <<>>]

\* Open(path, inMemory) -> handle, 0 on failure.
NativeOpen(e) ==
    IF e.fail THEN [handle |-> 0, err |-> e.err] ELSE [handle |-> 1, err |-> NullReg]

\* Close(handle) -> status.
NativeClose(e) ==
    IF e.fail THEN [status |-> 1, err |-> e.err] ELSE [status |-> 0, err |-> NullReg]

\* Set(handle, key, keyLen, value, valueLen) -> status; a failed Set stores nothing.
NativeSet(db, kb, vb, e) ==
    IF e.fail THEN [status |-> 1, db |-> db, err |-> e.err]
    ELSE [status |-> 0, db |-> Put(db, kb, vb), err |-> NullReg]

\* Get(handle, key, keyLen, outLen) -> pointer; null with length 0 on a miss or
\* a failure.
NativeGet(db, kb, e) ==
    IF e.fail THEN [ptr |-> FALSE, len |-> 0, data |-> <<>>, err |-> e.err]
    ELSE IF kb \in DOMAIN db
    THEN [ptr |-> TRUE, len |-> Len(db[kb]), data |-> db[kb], err |-> NullReg]
    ELSE [ptr |-> FALSE, len |-> 0, data |-> <<>>, err |-> e.err]

\* Delete(handle, key, keyLen) -> status; an absent key is reported as a failure
\* whose diagnostic says the key was not found.
NativeDelete(db, kb, e) ==
    IF e.fail THEN [status |-> 1, db |-> db, err |-> e.err]
    ELSE IF kb \in DOMAIN db
    THEN [status |-> 0, db |-> Remove(db, kb), err |-> NullReg]
    ELSE [status |-> 1, db |-> db, err |-> Reg(MsgKeyNotFound)]

\* Sync(handle) -> status.
NativeSync(e) ==
    IF e.fail THEN [status |-> 1, err |-> e.err] ELSE [status |-> 0, err |-> NullReg]

\* --------------------------------------------------------------- BadgerDict
\* A method's result: its outcome, the stored data and the handle it leaves,
\* and the native functions it called, in order.
Res(out, db, handle, native) ==
    [out |-> out, db |-> db, handle |-> handle, native |-> native]

Missing == PyVal("_MISSING", <<>>)

\* BadgerDict._last_error: the register's text, <<>> for None; the C string is
\* freed when the pointer is not null.
_last_error(reg) ==
    IF reg.null THEN [msg |-> <<>>, native |-> <<"LastError">>]
    ELSE [msg |-> reg.text, native |-> <<"LastError", "FreeCString">>]

\* BadgerDict._check_status
_check_status(status, reg) ==
    IF status = 0 THEN [out |-> Ok(PyNone), native |-> <<>>]
    ELSE LET le == _last_error(reg)
         IN [out |-> ErrMsg("BadgerError", IF le.msg # <<>> THEN le.msg ELSE MsgUnknown),
             native |-> le.native]

\* BadgerDict._open
_open(path_given, in_memory, e) ==
    IF ~in_memory /\ ~path_given THEN [out |-> Err("ValueError"), handle |-> 0, native |-> <<>>]
    ELSE LET n == NativeOpen(e)
         IN IF n.handle = 0
            THEN LET le == _last_error(n.err)
                 IN [out |-> ErrMsg("BadgerError",
                                    IF le.msg # <<>> THEN le.msg ELSE MsgOpenFailed),
                     handle |-> 0, native |-> <<"Open">> \o le.native]
            ELSE [out |-> Ok(PyNone), handle |-> n.handle, native |-> <<"Open">>]

\* A key encoder without the emptiness check.
_encode_key_accepts_empty(key) ==
    IF key.t \in ByteLikeTypes THEN Ok(key.v)
    ELSE IF key.t = "str" THEN Utf8Encode(key.v)
    ELSE PickleDumps(key)

\* BadgerDict._encode_key
_encode_key(key) ==
    LET data == IF key.t \in ByteLikeTypes THEN Ok(key.v)
                ELSE IF key.t = "str" THEN Utf8Encode(key.v)
                ELSE PickleDumps(key)
    IN IF data.ok /\ data.val = <<>> THEN Err("ValueError") ELSE data

\* BadgerDict._call: the closed-handle check in front of every native call.
_call(handle) == IF handle = 0 THEN ErrMsg("BadgerError", MsgClosed) ELSE Ok(PyNone)

\* BadgerDict.set
BadgerDict_set(self, db, key, value, e) ==
    LET key_bytes == _encode_key(key)
        value_bytes == _encode_value(self.auto_pickle, value)
        live == _call(self.handle)
    IN IF ~key_bytes.ok THEN Res(key_bytes, db, self.handle, <<>>)
       ELSE IF ~value_bytes.ok THEN Res(value_bytes, db, self.handle, <<>>)
       ELSE IF ~live.ok THEN Res(live, db, self.handle, <<>>)
       ELSE LET n == NativeSet(db, key_bytes.val, value_bytes.val, e)
                cs == _check_status(n.status, n.err)
            IN Res(cs.out, n.db, self.handle, <<"Set">> \o cs.native)

\* BadgerDict.get
BadgerDict_get(self, db, key, default, raise_missing, e) ==
    LET key_bytes == _encode_key(key)
        live == _call(self.handle)
        miss == IF raise_missing THEN Err("KeyError") ELSE Ok(default)
    IN IF ~key_bytes.ok THEN Res(key_bytes, db, self.handle, <<>>)
       ELSE IF ~live.ok THEN Res(live, db, self.handle, <<>>)
       ELSE LET n == NativeGet(db, key_bytes.val, e)
            IN IF ~n.ptr /\ n.len = 0
               THEN LET le == _last_error(n.err)
                        out == IF le.msg # <<>>
                               THEN IF Contains(ToLower(le.msg), MsgNotFoundNeedle)
                                    THEN miss
                                    ELSE ErrMsg("BadgerError", le.msg)
                               ELSE miss
                    IN Res(out, db, self.handle, <<"Get">> \o le.native)
               ELSE Res(_decode_value(n.data), db, self.handle, <<"Get", "FreeBuffer">>)

\* A delete that raises on every non-zero status, "not found" included.
BadgerDict_delete_raises_on_absent(self, db, key, e) ==
    LET key_bytes == _encode_key(key)
        live == _call(self.handle)
    IN IF ~key_bytes.ok THEN Res(key_bytes, db, self.handle, <<>>)
       ELSE IF ~live.ok THEN Res(live, db, self.handle, <<>>)
       ELSE LET n == NativeDelete(db, key_bytes.val, e)
                cs == _check_status(n.status, n.err)
            IN IF n.status = 0
               THEN Res(Ok(PyVal("bool", <<1>>)), n.db, self.handle, <<"Delete">>)
               ELSE Res(cs.out, n.db, self.handle, <<"Delete">> \o cs.native)

\* BadgerDict.delete
BadgerDict_delete(self, db, key, e) ==
    LET key_bytes == _encode_key(key)
        live == _call(self.handle)
    IN IF ~key_bytes.ok THEN Res(key_bytes, db, self.handle, <<>>)
       ELSE IF ~live.ok THEN Res(live, db, self.handle, <<>>)
       ELSE LET n == NativeDelete(db, key_bytes.val, e)
            IN IF n.status = 0
               THEN Res(Ok(PyVal("bool", <<1>>)), n.db, self.handle, <<"Delete">>)
               ELSE LET le == _last_error(n.err)
                    IN IF le.msg # <<>> /\ Contains(ToLower(le.msg), MsgNotFoundNeedle)
                       THEN Res(Ok(PyVal("bool", <<0>>)), n.db, self.handle,
                                <<"Delete">> \o le.native)
                       \* _check_status reads the register a second time
                       ELSE LET cs == _check_status(n.status,
                                                    IF e.sticky THEN n.err ELSE NullReg)
                            IN Res(cs.out, n.db, self.handle,
                                   <<"Delete">> \o le.native \o cs.native)

\* BadgerDict.sync
BadgerDict_sync(self, db, e) ==
    LET live == _call(self.handle)
    IN IF ~live.ok THEN Res(live, db, self.handle, <<>>)
       ELSE LET n == NativeSync(e)
                cs == _check_status(n.status, n.err)
            IN Res(cs.out, db, self.handle, <<"Sync">> \o cs.native)

\* A close() that forgets the handle only when the native Close succeeded.
BadgerDict_close_keeps_failed_handle(self, db, e) ==
    IF self.handle = 0 THEN Res(Ok(PyNone), db, self.handle, <<>>)
    ELSE LET n == NativeClose(e)
             cs == _check_status(n.status, n.err)
         IN Res(cs.out, db, IF n.status = 0 THEN 0 ELSE self.handle,
                <<"Close">> \o cs.native)

\* BadgerDict.close
BadgerDict_close(self, db, e) ==
    IF self.handle = 0 THEN Res(Ok(PyNone), db, self.handle, <<>>)
    ELSE LET n == NativeClose(e)
             cs == _check_status(n.status, n.err)
         IN Res(cs.out, db, 0, <<"Close">> \o cs.native)

\* BadgerDict.__getitem__
BadgerDict___getitem__(self, db, key, e) ==
    BadgerDict_get(self, db, key, PyNone, TRUE, e)

\* BadgerDict.__setitem__
BadgerDict___setitem__(self, db, key, value, e) == BadgerDict_set(self, db, key, value, e)

\* BadgerDict.__delitem__
BadgerDict___delitem__(self, db, key, e) ==
    LET r == BadgerDict_delete(self, db, key, e)
    IN IF r.out.ok /\ r.out.val = PyVal("bool", <<0>>)
       THEN Res(Err("KeyError"), r.db, r.handle, r.native)
       ELSE IF r.out.ok THEN Res(Ok(PyNone), r.db, r.handle, r.native)
       ELSE r

\* BadgerDict.__contains__
BadgerDict___contains__(self, db, key, e) ==
    LET r == BadgerDict_get(self, db, key, Missing, FALSE, e)
    IN IF r.out.ok
       THEN Res(Ok(PyVal("bool", IF r.out.val = Missing THEN <<0>> ELSE <<1>>)),
                r.db, r.handle, r.native)
       ELSE r

\* A subscript-get that returns the default without storing it.
SkyShelve___getitem___no_store(self, db, key, factory_set, factory_value, e, e2) ==
    LET r == BadgerDict___getitem__(self, db, key, e)
    IN IF r.out.exc = "KeyError" /\ factory_set
       THEN [out |-> Ok(factory_value), db |-> r.db, handle |-> r.handle,
             native |-> r.native, called |-> TRUE]
       ELSE [out |-> r.out, db |-> r.db, handle |-> r.handle, native |-> r.native,
             called |-> FALSE]

\* SkyShelve.__getitem__: subscript-get with a default_factory attribute.  On
\* a miss with a factory set, the factory is invoked once, its result stored
\* under the key and returned; without a factory the miss is a KeyError.
\* factory_value is what the factory returns when invoked.  `called` says
\* whether the factory was invoked.
SkyShelve___getitem__(self, db, key, factory_set, factory_value, e, e2) ==
    LET r == BadgerDict___getitem__(self, db, key, e)
    IN IF r.out.exc = "KeyError" /\ factory_set
       THEN LET w == BadgerDict_set(self, r.db, key, factory_value, e2)
            IN [out |-> IF w.out.ok THEN Ok(factory_value) ELSE w.out,
                db |-> w.db, handle |-> w.handle, native |-> r.native \o w.native,
                called |-> TRUE]
       ELSE [out |-> r.out, db |-> r.db, handle |-> r.handle, native |-> r.native,
             called |-> FALSE]

\* ------------------------------------------------ prefix scan of the facade
\* scan(prefix) -> lazy sequence of (key, value): the stored entries whose key
\* starts with the prefix, in the engine's order, each key and value decoded.
HasPrefix(kb, pb) == Len(pb) <= Len(kb) /\ SubSeq(kb, 1, Len(pb)) = pb

\* A scan that matches the prefix anywhere in the key.
ScanMatches_anywhere(store, pb) ==
    {kb \in DOMAIN store :
        \E i \in 1..(Len(kb) - Len(pb) + 1) : SubSeq(kb, i, i + Len(pb) - 1) = pb}

ScanMatches(store, pb) == {kb \in DOMAIN store : HasPrefix(kb, pb)}

ScanEntry(store, kb) == <<Utf8Decode(kb).val, _decode_value(store[kb]).val>>

\* ---------------------------------------------------------- PersistentObject
\* The persistent type of the tests: Counter(key, value), stored as the record
\* {"value": value}.  An object is [cls, key, value]; a dict record is
\* PyVal("dict", <<value>>).
Counter(key, value) == [cls |-> "Counter", key |-> key, value |-> value]
NotAnInstance == [cls |-> "object", key |-> PyNone, value |-> 0]
\* A type check that accepts every object.
isinstance_any(obj) == TRUE
isinstance(obj) == obj.cls = "Counter"

\* Counter.to_record; hooks names the overridden hook that raises, if any.
to_record(hooks, obj) ==
    IF hooks = "to_record" THEN Err("ValueError") ELSE Ok(PyVal("dict", <<obj.value>>))

\* Counter.from_record: cls(key, int(record.get("value", 0)))
from_record(hooks, key, record) ==
    IF hooks = "from_record" THEN Err("ValueError")
    ELSE IF record.t # "dict" THEN Err("AttributeError")
    ELSE Ok(Counter(key, record.v[1]))

\* A key format that joins namespace and key without their lengths.
_format_key_joined(namespace, key) ==
    PyBytes(PickleDumps(PyVal("tuple", namespace \o key.v)).val)

\* PersistentObject._format_key: pickle.dumps((namespace, key)); the tuple's
\* content is each part with its length in front.
NsCounter == <<67, 111, 117, 110, 116, 101, 114>>       \* "Counter"
_format_key(namespace, key) ==
    PyBytes(PickleDumps(PyVal("tuple", <<Len(namespace)>> \o namespace
                                        \o <<Len(key.v)>> \o key.v)).val)

\* A materialisation that makes a zero default when the key is absent and no
\* default_factory was given.
Materialize_default_when_missing(hooks, key, got, factory, self_obj) ==
    IF ~got.ok THEN [out |-> got, stage |-> "get"]
    ELSE IF got.val = Missing
    THEN [out |-> Ok(Counter(key, 0)), stage |-> "none"]
    ELSE LET current == from_record(hooks, key, got.val)
         IN [out |-> current, stage |-> IF current.ok THEN "none" ELSE "from_record"]

\* update, lines 453-463: the current object from what store.get returned.
\* factory: "none" (no default_factory), "zero" (lambda: cls(key, 0)), "self"
\* (save's lambda: self), "badtype" (produces no instance), "raises".
Materialize(hooks, key, got, factory, self_obj) ==
    IF ~got.ok THEN [out |-> got, stage |-> "get"]
    ELSE IF got.val = Missing
    THEN IF factory = "none" THEN [out |-> Err("KeyError"), stage |-> "missing"]
         ELSE IF factory = "raises"
         THEN [out |-> Err("RuntimeError"), stage |-> "default_factory"]
         ELSE LET candidate == IF factory = "zero" THEN Counter(key, 0)
                               ELSE IF factory = "self" THEN self_obj
                               ELSE NotAnInstance
              IN IF ~isinstance(candidate)
                 THEN [out |-> Err("TypeError"), stage |-> "default_type"]
                 ELSE [out |-> Ok([candidate EXCEPT !.key = key]), stage |-> "none"]
    ELSE LET current == from_record(hooks, key, got.val)
         IN [out |-> current, stage |-> IF current.ok THEN "none" ELSE "from_record"]

\* A mutator step that stores a copy made before the mutator ran when the
\* mutator returns None, losing the in-place mutation.
Mutate_drops_in_place(current, mutator, self_obj) ==
    IF mutator = "raises" THEN [out |-> Err("RuntimeError"), stage |-> "mutator"]
    ELSE IF mutator = "badtype" THEN [out |-> Err("TypeError"), stage |-> "mutator_type"]
    ELSE [out |-> Ok(IF mutator = "replace" THEN self_obj ELSE current),
          stage |-> "none"]

\* A mutator step that ignores the object the mutator returns.
Mutate_keeps_current(current, mutator, self_obj) ==
    IF mutator = "raises" THEN [out |-> Err("RuntimeError"), stage |-> "mutator"]
    ELSE IF mutator = "badtype" THEN [out |-> Err("TypeError"), stage |-> "mutator_type"]
    ELSE [out |-> Ok(IF mutator = "incr" THEN [current EXCEPT !.value = @ + 1]
                     ELSE current),
          stage |-> "none"]

\* update, lines 465-471: the mutator step and the type check after it.
\* mutator: "none", "incr" (obj.value += 1, returns None), "replace" (returns
\* self_obj: save's _writer, or any replacement), "badtype", "raises".
Mutate(current, mutator, self_obj) ==
    IF mutator = "raises" THEN [out |-> Err("RuntimeError"), stage |-> "mutator"]
    ELSE LET updated == IF mutator = "incr" THEN [current EXCEPT !.value = @ + 1]
                        ELSE IF mutator = "replace" THEN self_obj
                        ELSE IF mutator = "badtype" THEN NotAnInstance
                        ELSE current
         IN IF ~isinstance(updated)
            THEN [out |-> Err("TypeError"), stage |-> "mutator_type"]
            ELSE [out |-> Ok(updated), stage |-> "none"]

\* What update has decided when it reaches line 473: the outcome so far, the
\* stage that failed, the record to store (write) if it got that far, and
\* whether the mutator was invoked.
Plan(out, stage, write, record, mutated) ==
    [out |-> out, stage |-> stage, write |-> write, record |-> record,
     mutated |-> mutated]

\* An update that stores the freshly made default before it runs the mutator.
PersistentObject_update_stores_default_first(hooks, key, got, factory, mutator, self_obj) ==
    LET m == Materialize(hooks, key, got, factory, self_obj)
    IN IF ~m.out.ok THEN Plan(m.out, m.stage, FALSE, PyNone, FALSE)
       ELSE LET u == Mutate(m.out.val, mutator, self_obj)
                rec == to_record(hooks, IF u.out.ok THEN u.out.val ELSE m.out.val)
            IN IF ~rec.ok THEN Plan(rec, "to_record", FALSE, PyNone, mutator # "none")
               ELSE Plan(u.out, u.stage, TRUE, rec.val, mutator # "none")

\* PersistentObject.update, lines 453-473, up to the store write.
PersistentObject_update(hooks, key, got, factory, mutator, self_obj) ==
    LET m == Materialize(hooks, key, got, factory, self_obj)
    IN IF ~m.out.ok THEN Plan(m.out, m.stage, FALSE, PyNone, FALSE)
       ELSE LET u == Mutate(m.out.val, mutator, self_obj)
            IN IF ~u.out.ok THEN Plan(u.out, u.stage, FALSE, PyNone, mutator # "none")
               ELSE LET rec == to_record(hooks, u.out.val)
                    IN IF ~rec.ok THEN Plan(rec, "to_record", FALSE, PyNone,
                                            mutator # "none")
                       ELSE Plan(u.out, "none", TRUE, rec.val, mutator # "none")

\* PersistentObject.load, lines 416-421, from what _get_record returned.
PersistentObject_load(hooks, key, got, default_given) ==
    IF ~got.ok THEN got
    ELSE IF got.val = Missing
    THEN IF default_given THEN Ok(PyNone) ELSE Err("KeyError")
    ELSE from_record(hooks, key, got.val)

\* PersistentObject.exists
PersistentObject_exists(got) ==
    IF ~got.ok THEN got
    ELSE Ok(PyVal("bool", IF got.val = Missing THEN <<0>> ELSE <<1>>))

\* _FileLock.acquire, lines 39-48: which primitive takes the lock.
\* "fcntl": flock(LOCK_EX), blocks while another holder exists; "msvcrt":
\* locking(LK_LOCK), retries and gives up with OSError; "none": RuntimeError.
LockFree(holders, p) == holders \ {p} = {}

\* A lock that is shared instead of exclusive.
CanAcquire_shared(platform, holders, p) == platform \in {"fcntl", "msvcrt"}

CanAcquire(platform, holders, p) ==
    platform \in {"fcntl", "msvcrt"} /\ LockFree(holders, p)

\* ------------------------------------------------------------ codec inputs
ByteAlphabet == {0, 1, 2, 255}
CodePoints == {65, 233, 8364, 55296}      \* "A", e-acute, euro sign, a lone surrogate

CodecValues ==
    {PyVal(t, b) : t \in ByteLikeTypes, b \in SeqsUpTo(ByteAlphabet, MaxLen)}
    \cup {PyVal("str", s) : s \in SeqsUpTo(CodePoints, MaxLen)}
    \cup {PyVal(t, <<n>>) : t \in {"int", "dict"}, n \in 0..MaxVal}
    \cup {PyNone, PyVal("function", <<>>)}

\* ------------------------------------------------------- dict-layer inputs
MaxCalls == 1      \* default_factory invocations followed in one run

EmptyKeys == {PyBytes(<<>>), PyVal("bytearray", <<>>), PyVal("memoryview", <<>>),
              PyVal("str", <<>>)}
DictKeys == EmptyKeys \cup {PyVal("str", <<97>>)}
\* An int is encodable only when auto_pickle is on.
DictValues == {PyBytes(<<1>>), PyVal("int", <<1>>)}

VARIABLES
    cpc,        \* codec run: "start", "encoded", "decoded", "failed"
    cIn,        \* the value handed to _encode_value
    cAuto,      \* the store's auto_pickle setting
    cEnc,       \* outcome of _encode_value
    cDec,       \* outcome of _decode_value
    db,         \* the engine's stored data: key bytes -> value bytes
    sHandle,    \* BadgerDict._handle of the store object (0: closed)
    sAuto,      \* BadgerDict._auto_pickle of the store object
    sFactory,   \* whether the store's default_factory attribute is set
    sCalls,     \* how many times the default factory has been invoked
    sClosed,    \* "open", or how close() ended: "clean", "failed"
    sLast,      \* the last call on the store object and what it did
    mode,       \* which callers run: "none", "mixed", "counter"
    platform,   \* the locking primitive: "fcntl", "msvcrt", "none"
    oAuto,      \* the persistent type's _storage_auto_pickle
    holders,    \* processes whose lock file handle holds the advisory lock
    pc,         \* where each process is in its call
    call,       \* the call a process is in: [name, key]
    handle,     \* _handle of the store object a process has opened (0: none)
    before,     \* the bytes stored under the key when the lock was taken
    plan,       \* what update has decided before its store write
    res,        \* the outcome of the call so far (value or pending exception)
    stage,      \* the step of the call that failed first, "none" if none
    seen,       \* what the last writer of the key was when this call read it
    saving,     \* to_record() of the object a save call is saving
    calls,      \* number of calls each process has made
    hist,       \* per key: the record the last save wrote, "deleted", "unknown"
    failed,     \* whether some call raised
    args,       \* the arguments of the update a process is in
    natlog,     \* the store calls the current call made to the engine, each
                \* with whether the process held the lock then
    scPc,       \* the scan in progress: "idle", "open", "done"
    scPrefix,   \* the prefix given to scan
    scOut,      \* the (key, value) pairs the scan has yielded
    scDirty,    \* whether the store was written while the scan was open
    scStore,    \* the stored data when the scan was opened
    nsLast,     \* the last call on one of two persistent types and its outcome
    nsHist,     \* per namespace and key: the record its type last wrote
    nLast,      \* the last get or delete of a register run: what the engine
                \* returned and left in the register, and what the method did
    lpc,        \* per thread: where its BadgerDict constructor is
    lLib,       \* whether BadgerDict._lib is set
    lSigs,      \* whether the signatures of _lib are configured
    lMutex,     \* the holder of BadgerDict._init_lock, or "free"
    lLoads,     \* how often ctypes.CDLL loaded the library
    lConfigs,   \* how often _configure_signatures ran
    lMade,      \* per thread: constructor calls started
    lUsed,      \* per thread: how its last _ensure_library ended
    eLast,      \* the last set or get of an envelope run: the bytes handed to
                \* the native Set, or what the native Get handed back
    gCfg,       \* a persistent type's _storage_path, _storage_in_memory, _lock_path
    gpc,        \* where the caller of a configuration run is in its call
    gCall,      \* the call of a configuration run and its arguments
    gLog,       \* what that call has done: "acquire", native calls, "release"
    gOut        \* the outcome of that call so far

codecVars == <<cpc, cIn, cAuto, cEnc, cDec>>
dictVars == <<sHandle, sAuto, sFactory, sCalls, sClosed, sLast>>

objVars == <<mode, platform, oAuto, holders, pc, call, handle, before, plan, res,
             stage, seen, saving, calls, hist, failed, args, natlog>>

scanVars == <<scPc, scPrefix, scOut, scDirty, scStore>>
nsVars == <<nsLast, nsHist>>
regVars == <<nLast>>
libVars == <<lpc, lLib, lSigs, lMutex, lLoads, lConfigs, lMade, lUsed>>
envVars == <<eLast>>
cfgVars == <<gCfg, gpc, gCall, gLog, gOut>>
extVars == <<regVars, libVars, envVars, cfgVars>>
auxVars == <<scanVars, nsVars, extVars>>

vars == <<codecVars, db, dictVars, objVars, auxVars>>

\* ------------------------------------------------------------- codec runs
CodecIdle ==
    /\ cpc = "start" /\ cIn = PyNone /\ cAuto = TRUE
    /\ cEnc = Err("none") /\ cDec = Err("none")

\* --------------------------------------------------- object-layer inputs
MaxOps == 2        \* calls made in a mixed run, over all processes
Iterations == 2    \* increments each counter worker makes

Procs == {"p1", "p2"}
ObjKey == PyVal("str", <<103>>)                     \* the record key "g"
FullKey == _format_key(NsCounter, ObjKey)
Unknown == PyVal("unknown", <<>>)
Deleted == PyVal("deleted", <<>>)
NoPlan == Plan(Ok(PyNone), "none", FALSE, PyNone, FALSE)
NoArgs == [factory |-> "none", mutator |-> "none", v |-> 0, hooks |-> "none"]
NoCallYet == [name |-> "none", key |-> PyNone, default_given |-> FALSE]

ObjIdle ==
    /\ holders = {}
    /\ pc = [p \in Procs |-> "idle"]
    /\ call = [p \in Procs |-> NoCallYet]
    /\ handle = [p \in Procs |-> 0]
    /\ before = [p \in Procs |-> <<>>]
    /\ plan = [p \in Procs |-> NoPlan]
    /\ res = [p \in Procs |-> Ok(PyNone)]
    /\ stage = [p \in Procs |-> "none"]
    /\ seen = [p \in Procs |-> Unknown]
    /\ saving = [p \in Procs |-> PyNone]
    /\ args = [p \in Procs |-> NoArgs]
    /\ natlog = [p \in Procs |-> <<>>]
    /\ calls = [p \in Procs |-> 0]
    /\ hist = Unknown
    /\ failed = FALSE

ObjUnused == mode = "none" /\ platform = "fcntl" /\ oAuto = TRUE /\ ObjIdle

\* ------------------------------------------------------------ scan inputs
ScanKeys == {PyVal("str", <<108, 97>>), PyVal("str", <<108, 98>>),
             PyVal("str", <<116>>)}                        \* "la", "lb", "t"
ScanPrefixes == {PyVal("str", <<108>>), PyVal("str", <<108, 97>>),
                 PyVal("str", <<116>>), PyVal("str", <<108, 97, 98>>),
                 PyVal("str", <<97>>)}                     \* "l", "la", "t", "lab", "a"
ScanValues == {PyVal("int", <<1>>), PyVal("str", <<97>>)}

ScanIdle ==
    /\ scPc = "idle" /\ scPrefix = PyNone /\ scOut = {} /\ scDirty = FALSE
    /\ scStore = EmptyDb

\* ------------------------------------------------------- namespace inputs
\* Two persistent types configured on one store path, with namespaces "N" and
\* "No" (their class names, or namespace=...), and the record keys "x", "ox".
NsTypes == {<<78>>, <<78, 111>>}
NsKeys == {PyVal("str", <<120>>), PyVal("str", <<111, 120>>)}
NoNsCall == [op |-> "none", ns |-> <<>>, key |-> PyNone, out |-> Ok(PyNone)]

NsIdle == nsLast = NoNsCall /\ nsHist = [t \in NsTypes, k \in NsKeys |-> Missing]

\* -------------------------------------------------------- register inputs
\* Engine behaviour on a Get or Delete: besides the usual ones, a miss
\* reported in capitals, and a failure that leaves no diagnostic.
MsgNotFoundUpper == <<78, 79, 84, 32, 70, 79, 85, 78, 68>>             \* "NOT FOUND"
LoudMiss == [fail |-> FALSE, err |-> Reg(MsgNotFoundUpper), sticky |-> TRUE]
RegGetChoices == GetChoices \cup {LoudMiss, Fault(NullReg)}
RegDeleteChoices == DeleteChoices \cup {Fault(NullReg)}
RegKeys == {PyVal("str", <<97>>), PyVal("str", <<98>>)}
RegValues == {PyBytes(<<1>>), PyVal("str", <<120>>)}
NoRegCall == [op |-> "none", present |-> FALSE, null |-> FALSE, status |-> 0,
              reg |-> NullReg, sticky |-> TRUE, raise_missing |-> FALSE,
              out |-> Ok(PyNone), native |-> <<>>]

RegIdle == nLast = NoRegCall

\* --------------------------------------------------------- library inputs
MaxCtor == 2       \* BadgerDict(...) calls each thread makes
Threads == {"t1", "t2", "t3"}
NotEnsured == "none"

LibIdle ==
    /\ lpc = [t \in Threads |-> "idle"]
    /\ lLib = FALSE /\ lSigs = FALSE /\ lMutex = "free"
    /\ lLoads = 0 /\ lConfigs = 0
    /\ lMade = [t \in Threads |-> 0]
    /\ lUsed = [t \in Threads |-> NotEnsured]

\* ------------------------------------------------------- envelope inputs
\* Values with an empty or one-element content, of every kind _encode_value
\* tells apart.
EnvValues == {v \in CodecValues : Len(v.v) <= 1}
EnvKeys == {PyVal("str", <<97>>), PyVal("str", <<>>)}

NoEnvCall == [op |-> "none", value |-> PyNone, passed |-> FALSE, bytes |-> <<>>,
              present |-> FALSE, fault |-> FALSE, ptr |-> FALSE, len |-> 0,
              out |-> Ok(PyNone)]

EnvIdle == eLast = NoEnvCall

\* -------------------------------------------------- configuration inputs
\* The path argument: None, "" or the name of a directory; lock_path: None
\* or a file name.
PathArgs == {"none", "empty", "dir"}
LockArgs == {"none", "given"}
ObjOps == {"load", "exists", "save", "update", "delete"}

\* The class attributes as PersistentObject declares them (lines 329-334).
Unconfigured == [path |-> "none", mem |-> FALSE, lock |-> "none"]
NoCfgCall == [op |-> "none", path |-> "none", mem |-> FALSE, lock |-> "none",
              configured |-> FALSE]

CfgIdle ==
    /\ gCfg = Unconfigured /\ gpc = "idle" /\ gCall = NoCfgCall
    /\ gLog = <<>> /\ gOut = Ok(PyNone)

ExtIdle == RegIdle /\ LibIdle /\ EnvIdle /\ CfgIdle
AuxIdle == ScanIdle /\ NsIdle /\ ExtIdle

NoCall == [op |-> "none", hasKey |-> FALSE, key |-> PyNone, valueOk |-> TRUE,
           out |-> Ok(PyNone), native |-> <<>>, changed |-> FALSE, hBefore |-> 0,
           called |-> FALSE, present |-> FALSE, fault |-> FALSE, factory |-> FALSE]

DictIdle ==
    /\ sHandle = 0 /\ sAuto = TRUE /\ sFactory = FALSE /\ sCalls = 0
    /\ sClosed = "open" /\ sLast = NoCall

InitCodec ==
    /\ cpc = "start"
    /\ cIn \in CodecValues
    /\ cAuto \in BOOLEAN
    /\ cEnc = Err("none")
    /\ cDec = Err("none")
    /\ db = EmptyDb
    /\ DictIdle
    /\ ObjUnused
    /\ AuxIdle

CodecEncode ==
    /\ cpc = "start"
    /\ cEnc' = _encode_value(cAuto, cIn)
    /\ cpc' = IF cEnc'.ok THEN "encoded" ELSE "failed"
    /\ UNCHANGED <<auxVars, cIn, cAuto, cDec, db, dictVars, objVars>>

CodecDecode ==
    /\ cpc = "encoded"
    /\ cDec' = _decode_value(cEnc.val)
    /\ cpc' = "decoded"
    /\ UNCHANGED <<auxVars, cIn, cAuto, cEnc, db, dictVars, objVars>>

NextCodec == CodecEncode \/ CodecDecode

SpecCodec == InitCodec /\ [][NextCodec]_vars

\* ------------------------------------------------- one store object in use
\* State after BadgerDict(...) returned: the handle is open.
InitDict ==
    /\ CodecIdle
    /\ db = EmptyDb
    /\ sHandle = 1
    /\ sAuto \in BOOLEAN
    /\ sFactory \in BOOLEAN
    /\ sCalls = 0
    /\ sClosed = "open"
    /\ sLast = NoCall
    /\ ObjUnused
    /\ AuxIdle

Self == [handle |-> sHandle, auto_pickle |-> sAuto]

KeyPresent(key) == LET kb == _encode_key(key) IN kb.ok /\ kb.val \in DOMAIN db

\* What every call leaves behind.
Called(op, hasKey, key, value, r, called, fault) ==
    /\ db' = r.db
    /\ sHandle' = r.handle
    /\ sLast' = [op |-> op, hasKey |-> hasKey, key |-> key,
                 valueOk |-> op \notin {"set", "setitem"} \/ _encode_value(sAuto, value).ok,
                 out |-> r.out, native |-> r.native, changed |-> (r.db # db),
                 hBefore |-> sHandle, called |-> called,
                 present |-> hasKey /\ KeyPresent(key), fault |-> fault,
                 factory |-> sFactory]
    /\ sCalls' = IF called THEN sCalls + 1 ELSE sCalls
    /\ UNCHANGED <<auxVars, codecVars, sAuto, objVars>>

DictGet ==
    \E key \in DictKeys, default \in {PyNone}, e \in GetChoices :
        /\ Called("get", TRUE, key, default,
                  BadgerDict_get(Self, db, key, default, FALSE, e), FALSE, e.fail)
        /\ UNCHANGED <<sFactory, sClosed>>

DictSet ==
    \E key \in DictKeys, value \in DictValues, e \in EngineChoices :
        /\ Called("set", TRUE, key, value, BadgerDict_set(Self, db, key, value, e),
                  FALSE, e.fail)
        /\ UNCHANGED <<sFactory, sClosed>>

DictDelete ==
    \E key \in DictKeys, e \in DeleteChoices :
        /\ Called("delete", TRUE, key, PyNone, BadgerDict_delete(Self, db, key, e),
                  FALSE, e.fail)
        /\ UNCHANGED <<sFactory, sClosed>>

DictSync ==
    \E e \in EngineChoices :
        /\ Called("sync", FALSE, PyNone, PyNone, BadgerDict_sync(Self, db, e),
                  FALSE, e.fail)
        /\ UNCHANGED <<sFactory, sClosed>>

DictClose ==
    \E e \in EngineChoices :
        LET r == BadgerDict_close(Self, db, e)
        IN /\ Called("close", FALSE, PyNone, PyNone, r, FALSE, e.fail)
           /\ sClosed' = IF sHandle = 0 THEN sClosed
                         ELSE IF r.out.ok THEN "clean" ELSE "failed"
           /\ UNCHANGED sFactory

\* store[key]
DictGetItem ==
    \E key \in DictKeys, e \in GetChoices, e2 \in EngineChoices :
        LET r == SkyShelve___getitem__(Self, db, key, sFactory,
                                       PyVal("dict", <<sCalls + 1>>), e, e2)
        IN /\ r.called => sCalls < MaxCalls
           /\ Called("getitem", TRUE, key, PyNone, r, r.called,
                     e.fail \/ (r.called /\ e2.fail))
           /\ UNCHANGED <<sFactory, sClosed>>

\* store[key] = value
DictSetItem ==
    \E key \in DictKeys, value \in DictValues, e \in EngineChoices :
        /\ Called("setitem", TRUE, key, value,
                  BadgerDict___setitem__(Self, db, key, value, e), FALSE, e.fail)
        /\ UNCHANGED <<sFactory, sClosed>>

\* del store[key]
DictDelItem ==
    \E key \in DictKeys, e \in DeleteChoices :
        /\ Called("delitem", TRUE, key, PyNone,
                  BadgerDict___delitem__(Self, db, key, e), FALSE, e.fail)
        /\ UNCHANGED <<sFactory, sClosed>>

\* key in store
DictContains ==
    \E key \in DictKeys, e \in GetChoices :
        /\ Called("contains", TRUE, key, PyNone,
                  BadgerDict___contains__(Self, db, key, e), FALSE, e.fail)
        /\ UNCHANGED <<sFactory, sClosed>>

\* store.default_factory = ... (or = None)
DictSetFactory ==
    /\ sFactory' \in BOOLEAN \ {sFactory}
    /\ UNCHANGED <<auxVars, codecVars, db, sHandle, sAuto, sCalls, sClosed, sLast, objVars>>

NextDict ==
    \/ DictGet \/ DictSet \/ DictDelete \/ DictSync \/ DictClose
    \/ DictGetItem \/ DictSetItem \/ DictDelItem \/ DictContains \/ DictSetFactory

SpecDict == InitDict /\ [][NextDict]_vars

\* -------------------------------------------------- scans of an open store
ScanSelf == [handle |-> 1, auto_pickle |-> TRUE]

InitScan ==
    /\ CodecIdle
    /\ DictIdle
    /\ ObjUnused
    /\ NsIdle
    /\ ExtIdle
    /\ db = EmptyDb
    /\ ScanIdle

\* store[key] = value, by this or another user of the store
ScanPut ==
    \E key \in ScanKeys, value \in ScanValues :
        /\ db' = BadgerDict___setitem__(ScanSelf, db, key, value, NoFault).db
        /\ db' # db
        /\ scDirty' = (scDirty \/ scPc = "open")
        /\ UNCHANGED <<nsVars, extVars, codecVars, dictVars, objVars, scPc, scPrefix, scOut, scStore>>

\* del store[key]
ScanRemove ==
    \E key \in ScanKeys :
        /\ db' = BadgerDict___delitem__(ScanSelf, db, key, NoFault).db
        /\ db' # db
        /\ scDirty' = (scDirty \/ scPc = "open")
        /\ UNCHANGED <<nsVars, extVars, codecVars, dictVars, objVars, scPc, scPrefix, scOut, scStore>>

\* scan(prefix) is called: iteration starts from the beginning.
ScanOpen ==
    \E prefix \in ScanPrefixes :
        /\ scPc \in {"idle", "done"}
        /\ scPc' = "open"
        /\ scPrefix' = prefix
        /\ scOut' = {}
        /\ scDirty' = FALSE
        /\ scStore' = db
        /\ UNCHANGED <<nsVars, extVars, codecVars, db, dictVars, objVars>>

\* The consumer takes the next entry.
ScanNext ==
    /\ scPc = "open"
    /\ \E kb \in ScanMatches(db, _encode_key(scPrefix).val) :
          /\ ScanEntry(db, kb)[1] \notin {x[1] : x \in scOut}
          /\ scOut' = scOut \cup {ScanEntry(db, kb)}
    /\ UNCHANGED <<nsVars, extVars, codecVars, db, dictVars, objVars, scPc, scPrefix, scDirty, scStore>>

\* The iteration is exhausted.
ScanEnd ==
    /\ scPc = "open"
    /\ \A kb \in ScanMatches(db, _encode_key(scPrefix).val) :
          ScanEntry(db, kb)[1] \in {x[1] : x \in scOut}
    /\ scPc' = "done"
    /\ UNCHANGED <<nsVars, extVars, codecVars, db, dictVars, objVars, scPrefix, scOut, scDirty, scStore>>

NextScan == ScanPut \/ ScanRemove \/ ScanOpen \/ ScanNext \/ ScanEnd

SpecScan == InitScan /\ [][NextScan]_vars

\* --------------------------------------- two persistent types on one store
\* One process calls save, update, delete, load and exists of either type; a
\* call runs from taking its type's lock to releasing it.
InitNs ==
    /\ CodecIdle
    /\ DictIdle
    /\ ObjUnused
    /\ ScanIdle
    /\ ExtIdle
    /\ db = EmptyDb
    /\ NsIdle

NsStore == [handle |-> NativeOpen(NoFault).handle, auto_pickle |-> TRUE]
NsGet(ns, key) == BadgerDict_get(NsStore, db, _format_key(ns, key), Missing, FALSE, NoFault).out

NsCalled(op, ns, key, out) ==
    /\ nsLast' = [op |-> op, ns |-> ns, key |-> key, out |-> out]
    /\ UNCHANGED <<codecVars, dictVars, objVars, scanVars, extVars>>

\* An update that files the record under the key the final object carries.
full_key_of_current(ns, key, current) == _format_key(ns, current.key)

\* update, lines 450 and 473: full_key is made from the key argument before
\* the lock is taken, and the record of current is stored under it.
full_key(ns, key, current) == _format_key(ns, key)

\* update(key, ...) of the type with namespace ns; save when self is given.
NsWrite(op, ns, key, factory, mutator, self_obj) ==
    LET pl == PersistentObject_update("none", key, NsGet(ns, key), factory, mutator, self_obj)
        w == BadgerDict___setitem__(NsStore, db, full_key(ns, key, pl.out.val), pl.record,
                                    NoFault)
    IN /\ pl.write => pl.record.v[1] <= MaxVal
       /\ db' = IF pl.write THEN w.db ELSE db
       /\ nsHist' = IF pl.write THEN [nsHist EXCEPT ![ns, key] = pl.record] ELSE nsHist
       /\ NsCalled(op, ns, key, pl.out)

NsSave ==
    \E ns \in NsTypes, key \in NsKeys, v \in 0..MaxVal :
        NsWrite("save", ns, key, "self", "replace", Counter(key, v))

NsUpdate ==
    \E ns \in NsTypes, key \in NsKeys, factory \in {"none", "zero"} :
        NsWrite("update", ns, key, factory, "incr", Counter(key, 0))

\* update(key, mutator=lambda obj: cls(other, 0)): the mutator returns a
\* replacement that carries another key.
NsReplace ==
    \E ns \in NsTypes, key \in NsKeys :
      \E other \in NsKeys \ {key} :
        NsWrite("update", ns, key, "zero", "replace", Counter(other, 0))

NsDelete ==
    \E ns \in NsTypes, key \in NsKeys :
        LET r == BadgerDict_delete(NsStore, db, _format_key(ns, key), NoFault)
        IN /\ db' = r.db
           /\ nsHist' = IF r.out = Ok(PyVal("bool", <<1>>))
                        THEN [nsHist EXCEPT ![ns, key] = Missing] ELSE nsHist
           /\ NsCalled("delete", ns, key, r.out)

NsLoad ==
    \E ns \in NsTypes, key \in NsKeys :
        /\ NsCalled("load", ns, key, PersistentObject_load("none", key, NsGet(ns, key), FALSE))
        /\ UNCHANGED <<db, nsHist>>

NsExists ==
    \E ns \in NsTypes, key \in NsKeys :
        /\ NsCalled("exists", ns, key, PersistentObject_exists(NsGet(ns, key)))
        /\ UNCHANGED <<db, nsHist>>

NextNs == NsSave \/ NsUpdate \/ NsReplace \/ NsDelete \/ NsLoad \/ NsExists

SpecNs == InitNs /\ [][NextNs]_vars

\* ------------------------------------------- get and delete at the register
\* One open store; each step is one get, store[key] or delete, with what the
\* engine returned and left in the Error Register kept beside the outcome.
InitReg ==
    /\ CodecIdle
    /\ DictIdle
    /\ ObjUnused
    /\ ScanIdle
    /\ NsIdle
    /\ LibIdle
    /\ EnvIdle
    /\ CfgIdle
    /\ db = EmptyDb
    /\ RegIdle

RegStore == [handle |-> NativeOpen(NoFault).handle, auto_pickle |-> TRUE]

RegCalled(op, key, null, status, reg, sticky, raise_missing, r) ==
    /\ db' = r.db
    /\ nLast' = [op |-> op, present |-> _encode_key(key).val \in DOMAIN db,
                 null |-> null, status |-> status,
                 reg |-> reg, sticky |-> sticky, raise_missing |-> raise_missing,
                 out |-> r.out, native |-> r.native]
    /\ UNCHANGED <<codecVars, dictVars, objVars, scanVars, nsVars, libVars, envVars, cfgVars>>

\* store[key] = value
RegSet ==
    \E key \in RegKeys, value \in RegValues :
        LET r == BadgerDict___setitem__(RegStore, db, key, value, NoFault)
        IN /\ r.db # db
           /\ RegCalled("set", key, FALSE, 0, NullReg, TRUE, FALSE, r)

\* store.get(key, default, raise_missing=...)
RegGet ==
    \E key \in RegKeys, raise_missing \in BOOLEAN, e \in RegGetChoices :
        LET n == NativeGet(db, _encode_key(key).val, e)
        IN RegCalled("get", key, ~n.ptr /\ n.len = 0, 0, n.err, e.sticky, raise_missing,
                     BadgerDict_get(RegStore, db, key, PyNone, raise_missing, e))

\* store[key]
RegGetItem ==
    \E key \in RegKeys, e \in RegGetChoices :
        LET n == NativeGet(db, _encode_key(key).val, e)
        IN RegCalled("getitem", key, ~n.ptr /\ n.len = 0, 0, n.err, e.sticky, TRUE,
                     BadgerDict___getitem__(RegStore, db, key, e))

\* store.delete(key)
RegDelete ==
    \E key \in RegKeys, e \in RegDeleteChoices :
        LET n == NativeDelete(db, _encode_key(key).val, e)
        IN RegCalled("delete", key, FALSE, n.status, n.err, e.sticky, FALSE,
                     BadgerDict_delete(RegStore, db, key, e))

NextReg == RegSet \/ RegGet \/ RegGetItem \/ RegDelete

SpecReg == InitReg /\ [][NextReg]_vars

\* ------------------------------------------ threads constructing BadgerDict
\* Each thread runs BadgerDict.__init__ up to MaxCtor times; the steps of
\* _ensure_library are taken one at a time, in any interleaving.
InitLib ==
    /\ CodecIdle
    /\ DictIdle
    /\ ObjUnused
    /\ ScanIdle
    /\ NsIdle
    /\ RegIdle
    /\ EnvIdle
    /\ CfgIdle
    /\ db = EmptyDb
    /\ LibIdle

LibStep(t, to) ==
    /\ lpc' = [lpc EXCEPT ![t] = to]
    /\ UNCHANGED <<codecVars, db, dictVars, objVars, scanVars, nsVars, regVars, envVars, cfgVars>>

\* BadgerDict(...) is called: __init__ enters _ensure_library.
Construct(t) ==
    /\ lpc[t] = "idle"
    /\ lMade[t] < MaxCtor
    /\ lMade' = [lMade EXCEPT ![t] = @ + 1]
    /\ lUsed' = [lUsed EXCEPT ![t] = NotEnsured]
    /\ LibStep(t, "check1")
    /\ UNCHANGED <<lLib, lSigs, lMutex, lLoads, lConfigs>>

\* line 97: if cls._lib is not None: return
FirstCheck(t) ==
    /\ lpc[t] = "check1"
    /\ LibStep(t, IF lLib THEN "open" ELSE "lock")
    /\ lUsed' = [lUsed EXCEPT ![t] = IF lLib THEN "reused" ELSE @]
    /\ UNCHANGED <<lLib, lSigs, lMutex, lLoads, lConfigs, lMade>>

\* An entry into the with block that does not wait for the mutex.
EnterInitLock_unguarded(t) ==
    /\ lpc[t] = "lock"
    /\ lMutex' = t
    /\ LibStep(t, "check2")
    /\ UNCHANGED <<lLib, lSigs, lLoads, lConfigs, lMade, lUsed>>

\* line 99: with cls._init_lock
EnterInitLock(t) ==
    /\ lpc[t] = "lock"
    /\ lMutex = "free"
    /\ lMutex' = t
    /\ LibStep(t, "check2")
    /\ UNCHANGED <<lLib, lSigs, lLoads, lConfigs, lMade, lUsed>>

\* line 100: if cls._lib is not None: return
SecondCheck(t) ==
    /\ lpc[t] = "check2"
    /\ LibStep(t, IF lLib THEN "unlock" ELSE "load")
    /\ lUsed' = [lUsed EXCEPT ![t] = IF lLib THEN "reused" ELSE @]
    /\ UNCHANGED <<lLib, lSigs, lMutex, lLoads, lConfigs, lMade>>

\* line 103: cls._lib = ctypes.CDLL(path); CDLL raises OSError when the
\* library cannot be loaded, and _lib stays None.
LoadLibrary(t) ==
    /\ lpc[t] = "load"
    /\ \E loaded \in BOOLEAN :
          /\ lLib' = (lLib \/ loaded)
          /\ lLoads' = IF loaded THEN lLoads + 1 ELSE lLoads
          /\ lUsed' = [lUsed EXCEPT ![t] = IF loaded THEN "loaded" ELSE "failed"]
          /\ LibStep(t, IF loaded THEN "configure" ELSE "unlock")
    /\ UNCHANGED <<lSigs, lMutex, lConfigs, lMade>>

\* line 104: cls._configure_signatures()
ConfigureSignatures(t) ==
    /\ lpc[t] = "configure"
    /\ lSigs' = TRUE
    /\ lConfigs' = lConfigs + 1
    /\ LibStep(t, "unlock")
    /\ UNCHANGED <<lLib, lMutex, lLoads, lMade, lUsed>>

\* the with block is left: _init_lock is released
LeaveInitLock(t) ==
    /\ lpc[t] = "unlock"
    /\ lMutex' = IF lMutex = t THEN "free" ELSE lMutex
    /\ LibStep(t, IF lUsed[t] = "failed" THEN "idle" ELSE "open")
    /\ UNCHANGED <<lLib, lSigs, lLoads, lConfigs, lMade, lUsed>>

\* line 92: self._handle = self._open(path, in_memory), with cls._lib
OpenWithLibrary(t) ==
    /\ lpc[t] = "open"
    /\ LibStep(t, "idle")
    /\ UNCHANGED <<lLib, lSigs, lMutex, lLoads, lConfigs, lMade, lUsed>>

NextLib ==
    \E t \in Threads :
        \/ Construct(t) \/ FirstCheck(t) \/ EnterInitLock(t) \/ SecondCheck(t)
        \/ LoadLibrary(t) \/ ConfigureSignatures(t) \/ LeaveInitLock(t)
        \/ OpenWithLibrary(t)

SpecLib == InitLib /\ [][NextLib]_vars

\* ------------------------------------------- envelopes handed to the engine
\* One open store; values of every kind are set and read back, the engine
\* failing or not.
InitEnv ==
    /\ CodecIdle
    /\ db = EmptyDb
    /\ sHandle = 1
    /\ sAuto \in BOOLEAN
    /\ sFactory = FALSE /\ sCalls = 0 /\ sClosed = "open" /\ sLast = NoCall
    /\ ObjUnused
    /\ AuxIdle

\* set hands value_bytes to the native Set (lines 245-252) whenever it gets
\* as far as the call.
EnvWrote(op, value, r, fault) ==
    /\ db' = r.db
    /\ eLast' = [op |-> op, value |-> value,
                 passed |-> r.native # <<>> /\ r.native[1] = "Set",
                 bytes |-> IF r.native # <<>> /\ r.native[1] = "Set"
                           THEN _encode_value(sAuto, value).val ELSE <<>>,
                 present |-> FALSE, fault |-> fault, ptr |-> FALSE, len |-> 0,
                 out |-> r.out]
    /\ UNCHANGED <<codecVars, dictVars, objVars, scanVars, nsVars, regVars, libVars, cfgVars>>

\* store.set(key, value)
EnvSet ==
    \E key \in EnvKeys, value \in EnvValues, e \in EngineChoices :
        EnvWrote("set", value, BadgerDict_set(Self, db, key, value, e), e.fail)

\* store[key] = value
EnvSetItem ==
    \E key \in EnvKeys, value \in EnvValues, e \in EngineChoices :
        EnvWrote("setitem", value, BadgerDict___setitem__(Self, db, key, value, e), e.fail)

\* store.get(key)
EnvGet ==
    \E key \in EnvKeys, e \in GetChoices :
        LET kb == _encode_key(key)
            n == NativeGet(db, kb.val, e)
            r == BadgerDict_get(Self, db, key, Missing, FALSE, e)
        IN /\ db' = r.db
           /\ eLast' = [op |-> "get", value |-> PyNone, passed |-> FALSE, bytes |-> <<>>,
                        present |-> kb.ok /\ kb.val \in DOMAIN db, fault |-> e.fail,
                        ptr |-> kb.ok /\ n.ptr, len |-> IF kb.ok THEN n.len ELSE 0,
                        out |-> r.out]
           /\ UNCHANGED <<codecVars, dictVars, objVars, scanVars, nsVars, regVars, libVars, cfgVars>>

NextEnv == EnvSet \/ EnvSetItem \/ EnvGet

SpecEnv == InitEnv /\ [][NextEnv]_vars

\* ------------------------------------------ configuring a persistent type
\* One caller configures a persistent type (or not) and calls its methods;
\* it also constructs stores directly.

\* PersistentObject._ensure_configured
_ensure_configured(cfg) ==
    IF cfg.path = "none" /\ ~cfg.mem THEN Err("RuntimeError") ELSE Ok(PyNone)

\* PersistentObject.configure_storage: the outcome and the class attributes it
\* leaves.  mkdir_ok: whether resolved.mkdir(parents=True, exist_ok=True)
\* succeeds.
configure_storage(cfg, path, in_memory, lock_path, mkdir_ok) ==
    IF ~in_memory /\ path # "dir" THEN [out |-> Err("ValueError"), cfg |-> cfg]
    ELSE IF ~in_memory /\ ~mkdir_ok THEN [out |-> Err("OSError"), cfg |-> cfg]
    ELSE LET resolved == IF in_memory THEN "none" ELSE "dir"
         IN [out |-> Ok(PyNone),
             cfg |-> [path |-> resolved, mem |-> in_memory,
                      lock |-> IF lock_path = "given" THEN "explicit"
                               ELSE IF in_memory THEN "temp"
                               ELSE IF resolved # "none" THEN "default"
                               ELSE "none"]]

InitCfg ==
    /\ CodecIdle
    /\ DictIdle
    /\ ObjUnused
    /\ ScanIdle
    /\ NsIdle
    /\ RegIdle
    /\ LibIdle
    /\ EnvIdle
    /\ db = EmptyDb
    /\ CfgIdle

CfgOthers == <<codecVars, dictVars, objVars, scanVars, nsVars, regVars, libVars, envVars>>
CfgStore == [handle |-> NativeOpen(NoFault).handle, auto_pickle |-> TRUE]

\* cls.configure_storage(path, in_memory=..., lock_path=...)
CfgConfigure ==
    /\ gpc = "idle"
    /\ \E path \in PathArgs, in_memory \in BOOLEAN, lock_path \in LockArgs,
          mkdir_ok \in BOOLEAN :
          LET r == configure_storage(gCfg, path, in_memory, lock_path, mkdir_ok)
          IN /\ gCfg' = r.cfg
             /\ gOut' = r.out
             /\ gCall' = [op |-> "configure", path |-> path, mem |-> in_memory,
                          lock |-> lock_path, configured |-> _ensure_configured(gCfg).ok]
    /\ gLog' = <<>>
    /\ UNCHANGED <<CfgOthers, db, gpc>>

\* BadgerDict(path, in_memory=...): _open; the store object is dropped again
\* and __del__ closes it.
CfgConstruct ==
    /\ gpc = "idle"
    /\ \E path \in PathArgs, in_memory \in BOOLEAN, e \in EngineChoices :
          LET o == _open(path = "dir", in_memory, e)
          IN /\ gOut' = o.out
             /\ gLog' = o.native \o (IF o.out.ok THEN <<"Close">> ELSE <<>>)
             /\ gCall' = [op |-> "construct", path |-> path, mem |-> in_memory,
                          lock |-> "none", configured |-> _ensure_configured(gCfg).ok]
    /\ UNCHANGED <<CfgOthers, db, gCfg, gpc>>

\* load, exists, save, update or delete is called: _ensure_configured is the
\* first statement of _get_record, update and delete (lines 540, 449, 429).
CfgCall ==
    /\ gpc = "idle"
    /\ \E op \in ObjOps :
          LET c == _ensure_configured(gCfg)
          IN /\ gCall' = [op |-> op, path |-> gCfg.path, mem |-> gCfg.mem,
                          lock |-> gCfg.lock, configured |-> c.ok]
             /\ gOut' = c
             /\ gpc' = IF c.ok THEN "acquire" ELSE "idle"
    /\ gLog' = <<>>
    /\ UNCHANGED <<CfgOthers, db, gCfg>>

\* _locked_store: _ensure_configured again, then the lock is entered; flock
\* with one caller.  _lock_context is a nullcontext when _lock_path is None.
CfgAcquire ==
    /\ gpc = "acquire"
    /\ LET c == _ensure_configured(gCfg)
       IN /\ gOut' = c
          /\ gpc' = IF c.ok THEN "open" ELSE "idle"
          /\ gLog' = IF c.ok /\ gCfg.lock # "none" THEN gLog \o <<"acquire">> ELSE gLog
    /\ UNCHANGED <<CfgOthers, db, gCfg, gCall>>

\* _open_store: BadgerDict(path or None, in_memory=cls._storage_in_memory)
CfgOpenStore ==
    /\ gpc = "open"
    /\ \E e \in EngineChoices :
          LET o == _open(~gCfg.mem /\ gCfg.path # "none", gCfg.mem, e)
          IN /\ gLog' = gLog \o o.native
             /\ gOut' = o.out
             /\ gpc' = IF o.out.ok THEN "body" ELSE "release"
    /\ UNCHANGED <<CfgOthers, db, gCfg, gCall>>

\* The body of the with block: what the method does with the store.  What an
\* in-memory store holds when it is opened again is the engine's matter: it
\* is empty, or holds what was last written.
CfgBody ==
    /\ gpc = "body"
    /\ \E held \in (IF gCfg.mem THEN {EmptyDb, db} ELSE {db}),
          e \in GetChoices, e2 \in EngineChoices, v \in {0, MaxVal} :
          LET g == BadgerDict_get(CfgStore, held, FullKey, Missing, FALSE, e)
              d == BadgerDict_delete(CfgStore, held, FullKey, e2)
              pl == IF gCall.op = "save"
                    THEN PersistentObject_update("none", ObjKey, g.out, "self", "replace",
                                                 Counter(ObjKey, v))
                    ELSE PersistentObject_update("none", ObjKey, g.out, "zero", "replace",
                                                 Counter(ObjKey, v))
              w == BadgerDict___setitem__(CfgStore, held, FullKey, pl.record, e2)
          IN IF gCall.op \in {"load", "exists"}
             THEN /\ gOut' = IF gCall.op = "load"
                             THEN PersistentObject_load("none", ObjKey, g.out, FALSE)
                             ELSE PersistentObject_exists(g.out)
                  /\ gLog' = gLog \o g.native
                  /\ db' = db
             ELSE IF gCall.op = "delete"
             THEN /\ gOut' = d.out
                  /\ gLog' = gLog \o d.native
                  /\ db' = d.db
             ELSE IF pl.write
             THEN /\ gOut' = IF w.out.ok THEN pl.out ELSE w.out
                  /\ gLog' = gLog \o g.native \o w.native
                  /\ db' = w.db
             ELSE /\ gOut' = pl.out
                  /\ gLog' = gLog \o g.native
                  /\ db' = db
    /\ gpc' = "close"
    /\ UNCHANGED <<CfgOthers, gCfg, gCall>>

\* Leaving `with cls._open_store() as store`: close(); its exception
\* replaces the outcome.
CfgCloseStore ==
    /\ gpc = "close"
    /\ \E e \in EngineChoices :
          LET r == BadgerDict_close(CfgStore, db, e)
          IN /\ gLog' = gLog \o r.native
             /\ gOut' = IF r.out.ok THEN gOut ELSE r.out
    /\ gpc' = "release"
    /\ UNCHANGED <<CfgOthers, db, gCfg, gCall>>

\* Leaving `with lock_cm`: the lock is released.
CfgRelease ==
    /\ gpc = "release"
    /\ gLog' = IF gCfg.lock # "none" THEN gLog \o <<"release">> ELSE gLog
    /\ gpc' = "idle"
    /\ UNCHANGED <<CfgOthers, db, gCfg, gCall, gOut>>

NextCfg ==
    \/ CfgConfigure \/ CfgConstruct \/ CfgCall \/ CfgAcquire \/ CfgOpenStore
    \/ CfgBody \/ CfgCloseStore \/ CfgRelease

SpecCfg == InitCfg /\ [][NextCfg]_vars

\* ------------------------------------------- processes using PersistentObject
\* The store is on disk: every process that opens the storage path sees db.
Entry(kb) == IF kb \in DOMAIN db THEN db[kb] ELSE <<>>
StoreOf(p) == [handle |-> handle[p], auto_pickle |-> oAuto]

\* The store calls among the native calls a method made, as log entries.
StoreFns == {"Open", "Get", "Set", "Delete", "Close"}
IsStoreFn(fn) == fn \in StoreFns
Logged(p, native) ==
    LET fns == SelectSeq(native, IsStoreFn)
    IN natlog[p] \o [i \in 1..Len(fns) |-> [fn |-> fns[i], locked |-> p \in holders]]

CallNames == IF mode = "counter" THEN {"update"}
             ELSE {"load", "exists", "save", "update", "delete"}
\* The arguments of an update call: its default_factory, its mutator, the
\* value of the object a replacing mutator returns, and the record hook that
\* raises.  Counter.increment passes lambda: cls(key, 0) and obj.value += 1;
\* save passes lambda: self and _writer.  Other callers depart from the
\* increment in one argument at a time.
Args(factory, mutator, v, hooks) ==
    [factory |-> factory, mutator |-> mutator, v |-> v, hooks |-> hooks]
Hooks == IF mode = "counter" THEN {"none"} ELSE {"none", "from_record", "to_record"}
\* The values saved and put in place by a replacing mutator: the smallest and
\* the largest.
ObjValues == {0, MaxVal}
UpdateArgs(name) ==
    IF name = "save" THEN {Args("self", "replace", v, "none") : v \in ObjValues}
                          \cup {Args("self", "replace", 0, h) : h \in Hooks}
    ELSE IF mode = "counter" THEN {Args("zero", "incr", 0, "none")}
    ELSE {Args(f, "incr", 0, "none") : f \in {"none", "zero", "badtype", "raises"}}
         \cup {Args("zero", m, 0, "none") : m \in {"none", "badtype", "raises"}}
         \cup {Args("zero", "replace", v, "none") : v \in ObjValues}
         \cup {Args("zero", "incr", 0, h) : h \in Hooks}
LoadArgs(name) ==
    IF name = "load" THEN {[hooks |-> h, default_given |-> d] :
                              h \in Hooks \ {"to_record"}, d \in BOOLEAN}
    ELSE {[hooks |-> "none", default_given |-> FALSE]}
RECURSIVE Sum(_, _)
Sum(f, S) == IF S = {} THEN 0
             ELSE LET x == CHOOSE y \in S : TRUE IN f[x] + Sum(f, S \ {x})
\* The processes of a mixed run are interchangeable: the one that makes the
\* first call of the run is named p1.
FirstCaller == "p1"
MayCall(p) == IF mode = "counter" THEN calls[p] < Iterations
              ELSE /\ Sum(calls, Procs) < MaxOps
                   /\ Sum(calls, Procs) = 0 => p = FirstCaller

\* A mixed run.  Where the lock is free LK_LOCK takes it as flock does, and
\* where it is held a process either keeps waiting, as under flock, or gives
\* up: the runs on "msvcrt" contain the runs on "fcntl", so the mixed runs
\* start on "msvcrt" or on "none" (the counter runs start on all three).
InitObj ==
    /\ CodecIdle
    /\ DictIdle
    /\ AuxIdle
    /\ mode = "mixed"
    /\ platform \in {"msvcrt", "none"}
    /\ oAuto \in BOOLEAN
    /\ \/ db = EmptyDb /\ hist = Unknown
       \/ /\ oAuto
          /\ db = Put(EmptyDb, FullKey.v, _encode_value(TRUE, PyVal("dict", <<1>>)).val)
          /\ hist = PyVal("dict", <<1>>)
    /\ holders = {}
    /\ pc = [p \in Procs |-> "idle"]
    /\ call = [p \in Procs |-> NoCallYet]
    /\ handle = [p \in Procs |-> 0]
    /\ before = [p \in Procs |-> <<>>]
    /\ plan = [p \in Procs |-> NoPlan]
    /\ res = [p \in Procs |-> Ok(PyNone)]
    /\ stage = [p \in Procs |-> "none"]
    /\ seen = [p \in Procs |-> Unknown]
    /\ saving = [p \in Procs |-> PyNone]
    /\ args = [p \in Procs |-> NoArgs]
    /\ natlog = [p \in Procs |-> <<>>]
    /\ calls = [p \in Procs |-> 0]
    /\ failed = FALSE

\* The multi-process test: workers increment one counter that starts absent.
InitCounter ==
    /\ CodecIdle
    /\ DictIdle
    /\ AuxIdle
    /\ mode = "counter"
    /\ platform \in {"fcntl", "msvcrt", "none"}
    /\ oAuto = TRUE
    /\ db = EmptyDb
    /\ ObjIdle

\* A classmethod or save() is entered: _ensure_configured, _format_key.
Call(p) ==
    /\ pc[p] \in {"idle", "done"}
    /\ MayCall(p)
    /\ \E name \in CallNames :
          call' = [call EXCEPT ![p] = [name |-> name, key |-> ObjKey,
                                       default_given |-> FALSE]]
    /\ calls' = [calls EXCEPT ![p] = @ + 1]
    /\ pc' = [pc EXCEPT ![p] = "acquire"]
    /\ res' = [res EXCEPT ![p] = Ok(PyNone)]
    /\ stage' = [stage EXCEPT ![p] = "none"]
    /\ seen' = [seen EXCEPT ![p] = Unknown]
    /\ UNCHANGED <<auxVars, args, natlog, codecVars, db, dictVars, mode, platform, oAuto, holders, handle,
                   before, plan, saving, hist, failed>>

\* Entering the with-block when _lock_context is a nullcontext: no lock taken.
Acquire_nullcontext(p) ==
    /\ pc[p] = "acquire"
    /\ platform \in {"fcntl", "msvcrt"}
    /\ before' = [before EXCEPT ![p] = Entry(FullKey.v)]
    /\ pc' = [pc EXCEPT ![p] = "open"]
    /\ UNCHANGED <<auxVars, args, natlog, codecVars, db, dictVars, mode, platform, oAuto, holders, call,
                   handle, plan, res, stage, seen, saving, calls, hist, failed>>

\* _FileLock.acquire returns: the process holds the lock.
Acquire(p) ==
    /\ pc[p] = "acquire"
    /\ CanAcquire(platform, holders, p)
    /\ holders' = holders \cup {p}
    /\ before' = [before EXCEPT ![p] = Entry(FullKey.v)]
    /\ pc' = [pc EXCEPT ![p] = "open"]
    /\ UNCHANGED <<auxVars, args, natlog, codecVars, db, dictVars, mode, platform, oAuto, call, handle,
                   plan, res, stage, seen, saving, calls, hist, failed>>

\* An acquire that, without a locking primitive, lets the operation go on
\* unlocked instead of raising.
AcquireGivesUp_degrades(p) ==
    /\ pc[p] = "acquire"
    /\ \/ /\ platform = "none"
          /\ pc' = [pc EXCEPT ![p] = "open"]
          /\ before' = [before EXCEPT ![p] = Entry(FullKey.v)]
          /\ UNCHANGED <<res, stage, failed>>
       \/ /\ platform = "msvcrt" /\ ~LockFree(holders, p)
          /\ res' = [res EXCEPT ![p] = Err("OSError")]
          /\ stage' = [stage EXCEPT ![p] = "acquire"]
          /\ pc' = [pc EXCEPT ![p] = "done"]
          /\ failed' = TRUE
          /\ UNCHANGED before
    /\ UNCHANGED <<auxVars, args, natlog, codecVars, db, dictVars, mode, platform, oAuto, holders, call,
                   handle, plan, seen, saving, calls, hist>>

\* _FileLock.acquire raises: no locking primitive, or LK_LOCK ran out of retries.
AcquireGivesUp(p) ==
    /\ pc[p] = "acquire"
    /\ \/ platform = "none" /\ res' = [res EXCEPT ![p] = Err("RuntimeError")]
       \/ /\ platform = "msvcrt" /\ ~LockFree(holders, p)
          /\ res' = [res EXCEPT ![p] = Err("OSError")]
    /\ stage' = [stage EXCEPT ![p] = "acquire"]
    /\ pc' = [pc EXCEPT ![p] = "done"]
    /\ failed' = TRUE
    /\ UNCHANGED <<auxVars, args, natlog, codecVars, db, dictVars, mode, platform, oAuto, holders, call,
                   handle, before, plan, seen, saving, calls, hist>>

\* _open_store: BadgerDict(path, ...) inside the lock.
OpenStore(p) ==
    /\ pc[p] = "open"
    /\ \E e \in EngineChoices :
          LET o == _open(TRUE, FALSE, e)
          IN /\ natlog' = [natlog EXCEPT ![p] = Logged(p, o.native)]
             /\ IF o.out.ok
                THEN /\ handle' = [handle EXCEPT ![p] = o.handle]
                     /\ pc' = [pc EXCEPT ![p] =
                                 IF call[p].name \in {"load", "exists"} THEN "get"
                                 ELSE IF call[p].name = "delete" THEN "delete"
                                 ELSE "compute"]
                     /\ UNCHANGED <<res, stage>>
                ELSE /\ res' = [res EXCEPT ![p] = o.out]
                     /\ stage' = [stage EXCEPT ![p] = "open"]
                     /\ pc' = [pc EXCEPT ![p] = "release"]
                     /\ UNCHANGED handle
    /\ UNCHANGED <<auxVars, args, codecVars, db, dictVars, mode, platform, oAuto, holders, call,
                   before, plan, seen, saving, calls, hist, failed>>

\* _get_record: store.get(full_key, default=_MISSING), for load and exists.
GetRecord(p) ==
    /\ pc[p] = "get"
    /\ \E e \in GetChoices :
          LET r == BadgerDict_get(StoreOf(p), db, FullKey, Missing, FALSE, e)
          IN /\ natlog' = [natlog EXCEPT ![p] = Logged(p, r.native)]
             /\ res' = [res EXCEPT ![p] = r.out]
             /\ stage' = [stage EXCEPT ![p] = IF r.out.ok THEN "none" ELSE "get"]
    /\ seen' = [seen EXCEPT ![p] = hist]
    /\ pc' = [pc EXCEPT ![p] = "close"]
    /\ UNCHANGED <<auxVars, args, codecVars, db, dictVars, mode, platform, oAuto, holders, call,
                   handle, before, plan, saving, calls, hist, failed>>

\* PersistentObject.delete: store.delete(full_key).
DeleteRecord(p) ==
    /\ pc[p] = "delete"
    /\ \E e \in DeleteChoices :
          LET r == BadgerDict_delete(StoreOf(p), db, FullKey, e)
          IN /\ natlog' = [natlog EXCEPT ![p] = Logged(p, r.native)]
             /\ db' = r.db
             /\ res' = [res EXCEPT ![p] = r.out]
             /\ stage' = [stage EXCEPT ![p] = IF r.out.ok THEN "none" ELSE "delete"]
             /\ hist' = IF r.out.ok /\ r.db # db THEN Deleted ELSE hist
    /\ pc' = [pc EXCEPT ![p] = "close"]
    /\ UNCHANGED <<auxVars, args, codecVars, dictVars, mode, platform, oAuto, holders, call,
                   handle, before, plan, seen, saving, calls, failed>>

\* update, lines 453-471 and to_record: read, default or decode, mutate.
UpdateCompute(p) ==
    /\ pc[p] = "compute"
    /\ \E e \in GetChoices, a \in UpdateArgs(call[p].name) :
          LET g == BadgerDict_get(StoreOf(p), db, FullKey, Missing, FALSE, e)
              got == g.out
              pl == PersistentObject_update(a.hooks, call[p].key, got, a.factory,
                                            a.mutator, Counter(call[p].key, a.v))
          IN /\ natlog' = [natlog EXCEPT ![p] = Logged(p, g.native)]
             /\ args' = [args EXCEPT ![p] = a]
             /\ plan' = [plan EXCEPT ![p] = pl]
             /\ res' = [res EXCEPT ![p] = pl.out]
             /\ stage' = [stage EXCEPT ![p] = pl.stage]
             /\ pc' = [pc EXCEPT ![p] = IF pl.write THEN "write" ELSE "close"]
             /\ saving' = [saving EXCEPT ![p] =
                             IF call[p].name = "save"
                             THEN to_record("none", Counter(call[p].key, a.v)).val
                             ELSE PyNone]
    /\ UNCHANGED <<auxVars, codecVars, db, dictVars, mode, platform, oAuto, holders, call,
                   handle, before, seen, calls, hist, failed>>

\* update, line 473: store[full_key] = current.to_record().
UpdateWrite(p) ==
    /\ pc[p] = "write"
    /\ \E e \in EngineChoices :
          LET r == BadgerDict___setitem__(StoreOf(p), db, FullKey, plan[p].record, e)
          IN /\ natlog' = [natlog EXCEPT ![p] = Logged(p, r.native)]
             /\ db' = r.db
             /\ res' = [res EXCEPT ![p] = IF r.out.ok \/ ~res[p].ok THEN res[p] ELSE r.out]
             /\ stage' = [stage EXCEPT ![p] =
                            IF r.out.ok \/ stage[p] # "none" THEN stage[p]
                            ELSE IF r.out.exc = "BadgerError" THEN "set" ELSE "encode"]
             /\ hist' = IF ~r.out.ok THEN hist
                        ELSE IF call[p].name = "save" THEN saving[p] ELSE Unknown
    /\ pc' = [pc EXCEPT ![p] = "close"]
    /\ UNCHANGED <<auxVars, args, codecVars, dictVars, mode, platform, oAuto, holders, call,
                   handle, before, plan, seen, saving, calls, failed>>

\* A with block that closes the store only when its body ended normally.
CloseStore_skips_on_error(p) ==
    /\ pc[p] = "close"
    /\ \E e \in EngineChoices :
          LET r == IF stage[p] = "none" THEN BadgerDict_close(StoreOf(p), db, e)
                   ELSE Res(Ok(PyNone), db, handle[p], <<>>)
          IN /\ natlog' = [natlog EXCEPT ![p] = Logged(p, r.native)]
             /\ handle' = [handle EXCEPT ![p] = r.handle]
             /\ res' = [res EXCEPT ![p] = IF r.out.ok THEN res[p] ELSE r.out]
             /\ stage' = [stage EXCEPT ![p] =
                            IF r.out.ok \/ stage[p] # "none" THEN stage[p] ELSE "close"]
    /\ pc' = [pc EXCEPT ![p] = "release"]
    /\ plan' = [plan EXCEPT ![p] = NoPlan]
    /\ saving' = [saving EXCEPT ![p] = PyNone]
    /\ args' = [args EXCEPT ![p] = NoArgs]
    /\ UNCHANGED <<auxVars, codecVars, db, dictVars, mode, platform, oAuto, holders, call,
                   before, seen, calls, hist, failed>>

\* A close() whose exception leaves the lock's with-block without releasing.
CloseStore_raises_past_release(p) ==
    /\ pc[p] = "close"
    /\ \E e \in EngineChoices :
          LET r == BadgerDict_close(StoreOf(p), db, e)
          IN /\ natlog' = [natlog EXCEPT ![p] = Logged(p, r.native)]
             /\ handle' = [handle EXCEPT ![p] = r.handle]
             /\ res' = [res EXCEPT ![p] = IF r.out.ok THEN res[p] ELSE r.out]
             /\ stage' = [stage EXCEPT ![p] =
                            IF r.out.ok \/ stage[p] # "none" THEN stage[p] ELSE "close"]
             /\ pc' = [pc EXCEPT ![p] = IF r.out.ok THEN "release" ELSE "done"]
    /\ plan' = [plan EXCEPT ![p] = NoPlan]
    /\ saving' = [saving EXCEPT ![p] = PyNone]
    /\ args' = [args EXCEPT ![p] = NoArgs]
    /\ UNCHANGED <<auxVars, codecVars, db, dictVars, mode, platform, oAuto, holders, call,
                   before, seen, calls, hist, failed>>

\* Leaving `with cls._open_store() as store`: BadgerDict.__exit__ closes the
\* store; an exception from close() replaces the outcome.
CloseStore(p) ==
    /\ pc[p] = "close"
    /\ \E e \in EngineChoices :
          LET r == BadgerDict_close(StoreOf(p), db, e)
          IN /\ natlog' = [natlog EXCEPT ![p] = Logged(p, r.native)]
             /\ handle' = [handle EXCEPT ![p] = r.handle]
             /\ res' = [res EXCEPT ![p] = IF r.out.ok THEN res[p] ELSE r.out]
             /\ stage' = [stage EXCEPT ![p] =
                            IF r.out.ok \/ stage[p] # "none" THEN stage[p] ELSE "close"]
    /\ pc' = [pc EXCEPT ![p] = "release"]
    /\ plan' = [plan EXCEPT ![p] = NoPlan]
    /\ saving' = [saving EXCEPT ![p] = PyNone]
    /\ args' = [args EXCEPT ![p] = NoArgs]
    /\ UNCHANGED <<auxVars, codecVars, db, dictVars, mode, platform, oAuto, holders, call,
                   before, seen, calls, hist, failed>>

\* Leaving `with lock_cm`: _FileLock.__exit__ releases the lock; then load and
\* exists turn what _get_record returned into their result.
Release(p) ==
    /\ pc[p] = "release"
    /\ holders' = holders \ {p}
    /\ \E a \in LoadArgs(call[p].name) :
          LET out == IF call[p].name = "load"
                     THEN PersistentObject_load(a.hooks, call[p].key, res[p],
                                                a.default_given)
                     ELSE IF call[p].name = "exists" THEN PersistentObject_exists(res[p])
                     ELSE res[p]
          IN /\ res' = [res EXCEPT ![p] = out]
             /\ stage' = [stage EXCEPT ![p] =
                            IF out.ok \/ stage[p] # "none" THEN stage[p]
                            ELSE IF out.exc = "KeyError" THEN "missing" ELSE "from_record"]
             /\ failed' = (failed \/ ~out.ok)
             /\ call' = [call EXCEPT ![p].default_given = a.default_given]
    /\ before' = [before EXCEPT ![p] = <<>>]
    /\ plan' = [plan EXCEPT ![p] = NoPlan]
    /\ saving' = [saving EXCEPT ![p] = PyNone]
    /\ args' = [args EXCEPT ![p] = NoArgs]
    /\ natlog' = [natlog EXCEPT ![p] = <<>>]
    /\ pc' = [pc EXCEPT ![p] = "done"]
    /\ UNCHANGED <<auxVars, codecVars, db, dictVars, mode, platform, oAuto, handle,
                   seen, calls, hist>>

Next ==
    \E p \in Procs :
        \/ Call(p) \/ Acquire(p) \/ AcquireGivesUp(p) \/ OpenStore(p)
        \/ GetRecord(p) \/ DeleteRecord(p) \/ UpdateCompute(p) \/ UpdateWrite(p)
        \/ CloseStore(p) \/ Release(p)

Spec == InitObj /\ [][Next]_vars

NextCounter ==
    \E p \in Procs :
        \/ Call(p) \/ Acquire(p) \/ AcquireGivesUp(p) \/ OpenStore(p)
        \/ UpdateCompute(p) \/ UpdateWrite(p)
        \/ CloseStore(p) \/ Release(p)

SpecCounter == InitCounter /\ [][NextCounter]_vars

\* The counter workers under a fair scheduler: a process that can take a step
\* of the call it is in, and can go on taking it, takes one.  Whether and when
\* a worker makes its next call is left to the worker.
Proceed(p) ==
    \/ Acquire(p) \/ AcquireGivesUp(p) \/ OpenStore(p)
    \/ UpdateCompute(p) \/ UpdateWrite(p) \/ CloseStore(p) \/ Release(p)

FairCounter == SpecCounter /\ \A p \in Procs : WF_vars(Proceed(p))

\* ================================================================== claims

CodecDone == cpc \in {"decoded", "failed"}

ExpectedTag(value) ==
    IF value.t \in ByteLikeTypes THEN _VALUE_RAW
    ELSE IF value.t = "str" THEN _VALUE_STR
    ELSE _VALUE_PICKLED

\* C10 as stated: every byte-like value, every text value and every value
\* generic serialization supports (serialization enabled) is encoded to one
\* tag byte plus payload and decodes back to an equal value.
C10_RoundTripEveryText ==
    (CodecDone /\ cAuto /\ cIn.t \in PickleTypes)
        => /\ cpc = "decoded"
           /\ cDec.ok
           /\ PyEq(cDec.val, cIn)
           /\ cEnc.val[1] = ExpectedTag(cIn)

\* C10 (amended): the round trip holds for every byte-like value, every text
\* value without a lone surrogate code point and, when auto_pickle is on,
\* every picklable value; the envelope is the tag byte (RAW / TEXT /
\* SERIALIZED) followed by the payload.  Every other value is rejected by
\* _encode_value and nothing is encoded.
C10_Encodable ==
    \/ cIn.t \in ByteLikeTypes
    \/ cIn.t = "str" /\ \A i \in 1..Len(cIn.v) : ~IsSurrogate(cIn.v[i])
    \/ cIn.t \notin (ByteLikeTypes \cup {"str"}) /\ cAuto /\ cIn.t \in PickleTypes

C10_CodecRoundTrip ==
    CodecDone =>
        IF C10_Encodable
        THEN /\ cpc = "decoded"
             /\ cDec.ok
             /\ PyEq(cDec.val, cIn)
             /\ Len(cEnc.val) >= 1
             /\ cEnc.val[1] = ExpectedTag(cIn)
             /\ cIn.t \in ByteLikeTypes => Tail(cEnc.val) = cIn.v
        ELSE cpc = "failed" /\ ~cEnc.ok

\* A two-character text with multi-byte characters went through both steps,
\* and so did a bytearray whose content starts with a tag byte.
C10_Witness ==
    /\ cpc = "decoded"
    /\ \/ cIn = PyVal("str", <<233, 8364>>) /\ Len(cEnc.val) = 6
       \/ cIn = PyVal("bytearray", <<2, 255>>) /\ cDec.val = PyBytes(<<2, 255>>)

\* ---------------------------------------------------------------- C7..C9
KeyEncodesEmpty(key) == key.t \in (ByteLikeTypes \cup {"str"}) /\ key.v = <<>>
ValidKeyCall == sLast.hasKey /\ ~KeyEncodesEmpty(sLast.key)
ClosedError == ErrMsg("BadgerError", MsgClosed)
StoredValue(key) == _decode_value(db[_encode_key(key).val])

\* C7: with a default_factory set, a subscript-get of a missing key invokes the
\* factory once, stores its result under the key and returns it; a subscript-get
\* or get of a stored key returns the stored value and never invokes the
\* factory.  (Open store, no engine failure, a factory result the store can
\* encode.)
C7_DefaultFactoryOnce ==
    (sLast.op \in {"getitem", "get"} /\ ValidKeyCall /\ sLast.hBefore # 0 /\ ~sLast.fault)
      => /\ sLast.present
              => /\ ~sLast.called
                 /\ ~sLast.changed
                 /\ sLast.out.ok
                 /\ sLast.out.val = StoredValue(sLast.key).val
         /\ (sLast.op = "getitem" /\ ~sLast.present /\ sLast.factory /\ sAuto)
              => /\ sLast.called
                 /\ sLast.out = Ok(PyVal("dict", <<sCalls>>))
                 /\ KeyPresent(sLast.key)
                 /\ StoredValue(sLast.key) = sLast.out
         /\ (sLast.op = "getitem" /\ ~sLast.present /\ ~sLast.factory)
              => ~sLast.called /\ sLast.out.exc = "KeyError" /\ ~sLast.changed

\* A later access found the value the factory had produced and stored.
C7_Witness ==
    /\ sLast.op \in {"getitem", "get"}
    /\ sLast.present /\ sLast.factory /\ ~sLast.called
    /\ sCalls = 1
    /\ sLast.out = Ok(PyVal("dict", <<1>>))

CallsOnClosed == {"get", "set", "delete", "sync", "setitem", "delitem", "contains"}

\* C8 as stated: on a closed store close() is a no-op and every get, set,
\* delete and sync with a valid key fails with the "closed" error without a
\* native call, also after a close() whose native Close failed.
C8_ClosedAlwaysClosedError ==
    /\ sClosed # "open" => sHandle = 0
    /\ (sLast.op = "close" /\ sLast.hBefore = 0)
          => sLast.out = Ok(PyNone) /\ sLast.native = <<>> /\ ~sLast.changed
    /\ (sLast.op \in {"get", "set", "delete", "sync"} /\ sLast.hBefore = 0
        /\ (sLast.hasKey => ~KeyEncodesEmpty(sLast.key)))
          => sLast.out = ClosedError /\ sLast.native = <<>>

\* C8 (amended): as above for calls whose arguments can be encoded; a set whose
\* value _encode_value rejects fails with the encoding error instead, still
\* without a native call and without changing the store.
C8_ClosedHandleSafety ==
    /\ sClosed # "open" => sHandle = 0
    /\ (sLast.op = "close" /\ sLast.hBefore = 0)
          => sLast.out = Ok(PyNone) /\ sLast.native = <<>> /\ ~sLast.changed
    /\ (sLast.op \in CallsOnClosed /\ sLast.hBefore = 0
        /\ (sLast.hasKey => ~KeyEncodesEmpty(sLast.key)))
          => /\ sLast.native = <<>>
             /\ ~sLast.changed
             /\ sHandle = 0
             /\ IF sLast.valueOk THEN sLast.out = ClosedError
                ELSE sLast.out.exc \in {"TypeError", "UnicodeEncodeError", "PicklingError"}

\* A set was refused on a store whose close() had reported a failure.
C8_Witness ==
    /\ sClosed = "failed"
    /\ sLast.op = "set" /\ sLast.hBefore = 0 /\ sLast.valueOk
    /\ sLast.out = ClosedError

\* C9: get, set, delete, subscript access and membership test with a key whose
\* encoding is empty fail with ValueError before any native call, and the
\* store is unchanged.
C9_EmptyKeyRejected ==
    (sLast.hasKey /\ KeyEncodesEmpty(sLast.key))
      => /\ sLast.out.exc = "ValueError"
         /\ sLast.native = <<>>
         /\ ~sLast.changed
         /\ ~sLast.called

\* A membership test with an empty memoryview was refused on an open store
\* that holds an entry.
C9_Witness ==
    /\ sLast.op = "contains" /\ sLast.key = PyVal("memoryview", <<>>)
    /\ sLast.hBefore # 0 /\ DOMAIN db # {}
    /\ sLast.out.exc = "ValueError"

\* ---------------------------------------------------------------- C1..C6
InCritical(p) == pc[p] \in {"open", "get", "delete", "compute", "write", "close", "release"}
Returned(p) == pc[p] \in {"idle", "done"}
IsInstance(v) == "cls" \in DOMAIN v
PyTrue == PyVal("bool", <<1>>)
PyFalse == PyVal("bool", <<0>>)
Workers == Cardinality(Procs)
AllFinished == \A p \in Procs : pc[p] = "done" /\ calls[p] = Iterations
StoredRecord == _decode_value(db[FullKey.v])

\* C1: no lost updates.  When every one of the N worker processes has made its
\* M Counter.increment calls on the same key, starting from an absent key, and
\* every call returned (the workers exit normally), the stored counter is
\* exactly N*M, whatever the interleaving of the processes' steps.
C1_NoLostUpdates ==
    (AllFinished /\ ~failed)
        => /\ FullKey.v \in DOMAIN db
           /\ StoredRecord = Ok(PyVal("dict", <<Workers * Iterations>>))

\* Both workers finished all their increments, their steps having interleaved:
\* one waited for the lock while the other was half-way through an update.
C1_Witness ==
    /\ AllFinished /\ ~failed
    /\ StoredRecord.val.v[1] = Workers * Iterations
    /\ \A p \in Procs : res[p].ok /\ res[p].val.value >= Iterations

\* C2: mutual exclusion of the advisory file lock.  At most one process is
\* between a successful _FileLock.acquire() and its release(), and that process
\* is the lock's only holder: an acquire never returns while another process
\* holds the lock.
C2_MutualExclusion ==
    /\ Cardinality({p \in Procs : InCritical(p)}) <= 1
    /\ Cardinality(holders) <= 1
    /\ \A p \in Procs : InCritical(p) => holders = {p}

\* One process is writing inside the lock while another's acquire() is blocked.
C2_Witness ==
    \E p, q \in Procs :
        /\ p # q
        /\ platform = "msvcrt"
        /\ pc[p] = "write" /\ holders = {p}
        /\ pc[q] = "acquire"

UpdateFailures == {"default_factory", "default_type", "from_record", "mutator",
                   "mutator_type", "to_record", "encode", "set"}

\* C3: update never partially commits.  When default_factory, from_record, the
\* mutator, to_record, the value encoding or the store write failed in an
\* update (or a save), then at the end of the locked section the bytes stored
\* under the key are the bytes that were stored when the lock was taken (an
\* absent key is still absent) and the call is raising an exception.
C3_NoPartialCommit ==
    \A p \in Procs :
        (pc[p] = "release" /\ call[p].name \in {"update", "save"}
                           /\ stage[p] \in UpdateFailures)
            => /\ Entry(FullKey.v) = before[p]
               /\ ~res[p].ok

\* An update whose mutator raised on a key that was absent (the default had
\* been made), and one whose store write failed on a key that was present.
C3_Witness ==
    \E p \in Procs :
        /\ pc[p] = "release" /\ call[p].name = "update"
        /\ \/ stage[p] = "mutator" /\ before[p] = <<>> /\ res[p].exc = "RuntimeError"
           \/ stage[p] = "set" /\ before[p] # <<>> /\ res[p].exc = "BadgerError"

\* C4: guaranteed release.  No call of load, exists, save, update or delete has
\* returned or raised to its caller while its process still holds the lock,
\* whichever step of the locked section failed.
C4_ReleasedOnEveryExit ==
    \A p \in Procs : Returned(p) => p \notin holders

\* A call raised the BadgerError of a failed close() after taking the lock, and
\* the lock is free.
C4_Witness ==
    \E p \in Procs :
        /\ pc[p] = "done" /\ stage[p] = "close"
        /\ res[p].exc = "BadgerError"
        /\ holders = {}

C6_DeleteSemantics ==
    \A p \in Procs :
        /\ (pc[p] = "release" /\ call[p].name = "delete" /\ stage[p] \in {"none", "delete"})
              => /\ res[p].ok => /\ res[p].val = (IF before[p] # <<>> THEN PyTrue ELSE PyFalse)
                                 /\ FullKey.v \notin DOMAIN db
                 /\ (before[p] = <<>> /\ ~res[p].ok)
                       => /\ res[p].exc = "BadgerError"
                          /\ ~Contains(ToLower(res[p].msg), MsgNotFoundNeedle)
        /\ (pc[p] = "done" /\ seen[p] = Deleted /\ stage[p] \in {"none", "missing"})
              => /\ call[p].name = "load"
                    => res[p] = (IF call[p].default_given THEN Ok(PyNone)
                                 ELSE Err("KeyError"))
                 /\ call[p].name = "exists" => res[p] = Ok(PyFalse)

\* A delete returned True for a stored key and a later load raised KeyError.
C6_Witness ==
    \E p, q \in Procs :
        /\ pc[p] = "done" /\ call[p].name = "delete" /\ res[p] = Ok(PyTrue)
        /\ pc[q] = "done" /\ call[q].name = "load" /\ seen[q] = Deleted
        /\ res[q] = Err("KeyError")

\* --------------------------------------------------------------- C11
\* C11: scan(prefix) enumerates exactly the stored entries whose key starts
\* with the prefix.  Every pair a scan yields has a key with the prefix; a scan
\* that has completed, the store not having been written while it was open,
\* has yielded every stored key with the prefix, each with its stored value,
\* and nothing else; entries added after completion do not appear in it.
C11_ScanExactlyPrefix ==
    /\ scPc # "idle" => \A x \in scOut : HasPrefix(x[1].v, scPrefix.v)
    /\ (scPc = "done" /\ ~scDirty)
          => scOut = {<<k, _decode_value(scStore[_encode_key(k).val]).val>> :
                         k \in {k2 \in ScanKeys :
                                   /\ _encode_key(k2).val \in DOMAIN scStore
                                   /\ HasPrefix(k2.v, scPrefix.v)}}

\* A completed scan of "l" yielded two of the three stored entries, and the
\* store has been written since without changing the scan's results.
C11_Witness ==
    /\ scPc = "done" /\ ~scDirty
    /\ scPrefix = PyVal("str", <<108>>)
    /\ Cardinality(scOut) = 2
    /\ Cardinality(DOMAIN scStore) = 3
    /\ db # scStore

\* --------------------------------------------------------------- C12
NsRecordOf(ns, key) ==
    IF _format_key(ns, key).v \in DOMAIN db
    THEN _decode_value(db[_format_key(ns, key).v]).val
    ELSE Missing

\* C12: namespace isolation.  For both types and every application key, the
\* record stored for that type and key is the record that type last wrote
\* under the key (absent if it never wrote it or deleted it last), whatever the
\* other type saved, updated or deleted under any key; and load and exists of
\* a type report that type's record only.
C12_NamespaceIsolation ==
    /\ \A ns \in NsTypes, key \in NsKeys : NsRecordOf(ns, key) = nsHist[ns, key]
    /\ nsLast.op = "load"
          => nsLast.out = (IF nsHist[nsLast.ns, nsLast.key] = Missing THEN Err("KeyError")
                           ELSE from_record("none", nsLast.key,
                                            nsHist[nsLast.ns, nsLast.key]))
    /\ nsLast.op = "exists"
          => nsLast.out = Ok(PyVal("bool", IF nsHist[nsLast.ns, nsLast.key] = Missing
                                           THEN <<0>> ELSE <<1>>))

\* Type "N" holds a record under "ox" and type "No" a different one under "x",
\* and a load of "No"'s "x" has just returned "No"'s record.
C12_Witness ==
    /\ nsHist[<<78>>, PyVal("str", <<111, 120>>)] = PyVal("dict", <<2>>)
    /\ nsHist[<<78, 111>>, PyVal("str", <<120>>)] = PyVal("dict", <<1>>)
    /\ nsLast = [op |-> "load", ns |-> <<78, 111>>, key |-> PyVal("str", <<120>>),
                 out |-> Ok(Counter(PyVal("str", <<120>>), 1))]

\* The store calls a process has made in the call it is in.
LoggedFns(p) == {natlog[p][i].fn : i \in 1..Len(natlog[p])}

\* C13: update on an absent key with no default_factory.  When the body of such
\* an update is left (the lookup itself having succeeded), it is raising
\* KeyError, the mutator was not invoked, no Set was issued and the key is
\* still absent; the key is still absent when the lock is about to be
\* released; and once the call has raised to its caller the process no longer
\* holds the lock and the exception is that KeyError (or the BadgerError of a
\* close() that failed on the way out, which replaces it).
C13_MissingKeyNoFactory ==
    \A p \in Procs :
        /\ (pc[p] = "close" /\ call[p].name = "update" /\ args[p].factory = "none"
                            /\ before[p] = <<>> /\ stage[p] # "get")
              => /\ res[p] = Err("KeyError")
                 /\ stage[p] = "missing"
                 /\ ~plan[p].mutated
                 /\ ~plan[p].write
                 /\ "Set" \notin LoggedFns(p)
                 /\ Entry(FullKey.v) = <<>>
        /\ (pc[p] = "release" /\ call[p].name = "update" /\ stage[p] = "missing")
              => /\ Entry(FullKey.v) = <<>>
                 /\ "Set" \notin LoggedFns(p)
        /\ (pc[p] = "done" /\ call[p].name = "update" /\ stage[p] = "missing")
              => /\ p \notin holders
                 /\ \/ res[p] = Err("KeyError")
                    \/ res[p].exc = "BadgerError"

\* An update of the absent key without default_factory has raised KeyError;
\* the key is absent and the lock is free.
C13_Witness ==
    \E p \in Procs :
        /\ pc[p] = "done" /\ call[p].name = "update" /\ stage[p] = "missing"
        /\ res[p] = Err("KeyError")
        /\ FullKey.v \notin DOMAIN db
        /\ holders = {}

\* An object that is an instance of the expected record type.
IsCounter(v) == "cls" \in DOMAIN v /\ v.cls = "Counter"
MaterializeFailures == {"get", "missing", "default_factory", "default_type", "from_record"}

\* C14: type conformance in update.  When the key is absent and default_factory
\* produced an object that is no instance of the type, or when the current
\* object was made and the mutator left an object that is no instance of the
\* type, the body of update is left raising TypeError, no Set was issued and
\* the stored bytes are those of lock time.  Whenever update is about to
\* write, and whenever it has written, the record is to_record() of an
\* instance of the type.
C14_TypeConformance ==
    \A p \in Procs :
        /\ (pc[p] = "close" /\ call[p].name = "update" /\ stage[p] # "get"
                            /\ before[p] = <<>> /\ args[p].factory = "badtype")
              => /\ res[p] = Err("TypeError")
                 /\ stage[p] = "default_type"
                 /\ "Set" \notin LoggedFns(p)
                 /\ Entry(FullKey.v) = before[p]
        /\ (pc[p] = "close" /\ call[p].name = "update"
                            /\ stage[p] \notin MaterializeFailures
                            /\ args[p].mutator = "badtype")
              => /\ res[p] = Err("TypeError")
                 /\ stage[p] = "mutator_type"
                 /\ "Set" \notin LoggedFns(p)
                 /\ Entry(FullKey.v) = before[p]
        /\ (call[p].name \in {"update", "save"}
                /\ (pc[p] = "write" \/ (pc[p] = "close" /\ "Set" \in LoggedFns(p))))
              => /\ plan[p].out.ok
                 /\ IsCounter(plan[p].out.val)
                 /\ to_record(args[p].hooks, plan[p].out.val) = Ok(plan[p].record)
                 /\ (pc[p] = "close" /\ stage[p] = "none")
                       => StoredRecord = Ok(plan[p].record)

\* One update is leaving its body with the TypeError of a default_factory
\* that made no instance, the key still absent; and another has written the
\* record of an instance.
C14_Witness ==
    \E p \in Procs :
        /\ pc[p] = "close" /\ call[p].name = "update"
        /\ \/ /\ args[p].factory = "badtype" /\ before[p] = <<>>
              /\ res[p] = Err("TypeError") /\ FullKey.v \notin DOMAIN db
           \/ /\ args[p].mutator = "badtype" /\ stage[p] = "mutator_type"
              /\ before[p] # <<>> /\ res[p] = Err("TypeError")

\* The object update starts from: the default when the key was absent at lock
\* time, else from_record of the record stored then.
CurrentAtLock(p) ==
    IF before[p] = <<>> THEN Counter(call[p].key, 0)
    ELSE from_record("none", call[p].key, _decode_value(before[p]).val).val
\* What the mutator convention makes of it.
ExpectedAfterMutator(p) ==
    IF args[p].mutator = "replace" THEN Counter(call[p].key, args[p].v)
    ELSE IF args[p].mutator = "incr" THEN [CurrentAtLock(p) EXCEPT !.value = @ + 1]
    ELSE CurrentAtLock(p)

\* C15: mutator return convention.  When the body of an update has run to its
\* end, the object it returns and the record stored under the key are: the
\* replacement, if the mutator returned one; the loaded or default object as
\* the mutator changed it in place, if the mutator returned None; the loaded
\* or default object unchanged, if no mutator was given.
C15_MutatorConvention ==
    \A p \in Procs :
        (pc[p] = "close" /\ call[p].name = "update" /\ stage[p] = "none")
            => /\ args[p].mutator \in {"replace", "incr", "none"}
               /\ res[p] = Ok(ExpectedAfterMutator(p))
               /\ StoredRecord = to_record("none", ExpectedAfterMutator(p))

\* An update with an in-place mutator has stored and is returning the loaded
\* object plus one; one with a replacing mutator the replacement; one with no
\* mutator the default.
C15_Witness ==
    \E p \in Procs :
        /\ pc[p] = "close" /\ call[p].name = "update" /\ stage[p] = "none"
        /\ \/ /\ args[p].mutator = "incr" /\ before[p] # <<>>
              /\ res[p].val.value = CurrentAtLock(p).value + 1
              /\ StoredRecord = Ok(PyVal("dict", <<res[p].val.value>>))
           \/ /\ args[p].mutator = "replace" /\ args[p].v # CurrentAtLock(p).value
              /\ res[p].val = Counter(call[p].key, args[p].v)
           \/ /\ args[p].mutator = "none" /\ before[p] = <<>>
              /\ res[p].val = Counter(call[p].key, 0)

\* How often a process has called a native function in the call it is in, and
\* whether it held the lock each time.
RECURSIVE CountFn(_, _)
CountFn(log, fn) ==
    IF log = <<>> THEN 0
    ELSE (IF Head(log).fn = fn THEN 1 ELSE 0) + CountFn(Tail(log), fn)
LockedAt(p, fn) == \A i \in 1..Len(natlog[p]) : natlog[p][i].fn = fn => natlog[p][i].locked
OpenedStore(p) == "Open" \in LoggedFns(p) /\ stage[p] # "open"

\* C19: handle lifetime in the object layer.  An operation opens the store at
\* most once, as its first store call and with the lock held; it never calls
\* the native Close twice; a process has an open handle only while it holds
\* the lock; when the lock is about to be released, whatever step failed,
\* Close has been called exactly once if the store was opened (and not at all
\* if Open failed), with the lock held, and the handle is closed; and no
\* handle is open once the operation has returned or raised.
C19_HandleLifetime ==
    \A p \in Procs :
        /\ CountFn(natlog[p], "Open") <= 1
        /\ CountFn(natlog[p], "Close") <= 1
        /\ natlog[p] # <<>> => natlog[p][1].fn = "Open"
        /\ LockedAt(p, "Open") /\ LockedAt(p, "Close")
        /\ handle[p] # 0 => (p \in holders /\ OpenedStore(p)
                              /\ "Close" \notin LoggedFns(p))
        /\ pc[p] = "release"
              => /\ p \in holders
                 /\ handle[p] = 0
                 /\ CountFn(natlog[p], "Close") = (IF OpenedStore(p) THEN 1 ELSE 0)
                 /\ natlog[p] # <<>>
                 /\ OpenedStore(p) => natlog[p][Len(natlog[p])].fn = "Close"
        /\ Returned(p) => handle[p] = 0

\* An update whose mutator raised is about to release the lock: it opened the
\* store, called Close once, and its handle is closed.
C19_Witness ==
    \E p \in Procs :
        /\ pc[p] = "release" /\ call[p].name = "update" /\ stage[p] = "mutator"
        /\ CountFn(natlog[p], "Open") = 1
        /\ CountFn(natlog[p], "Close") = 1
        /\ handle[p] = 0
        /\ p \in holders

\* C20: no unsynchronised access from the object layer.  Every native Open,
\* Get, Set, Delete and Close of an operation was issued while its process
\* held the lock, and a process in the locked section holds the lock; on a
\* platform without a locking primitive no operation makes any store call or
\* enters the locked section, and each one raises RuntimeError.
C20_NoUnsynchronisedAccess ==
    \A p \in Procs :
        /\ \A fn \in StoreFns : LockedAt(p, fn)
        /\ InCritical(p) => p \in holders
        /\ platform = "none"
              => /\ natlog[p] = <<>>
                 /\ ~InCritical(p)
                 /\ handle[p] = 0
                 /\ pc[p] = "done" => (res[p] = Err("RuntimeError") /\ stage[p] = "acquire")

\* A process has issued Open, Get and Set under the lock while the other
\* process waits for the lock.
C20_Witness ==
    \E p, q \in Procs :
        /\ p # q /\ platform = "msvcrt"
        /\ {"Open", "Get", "Set"} \subseteq LoggedFns(p)
        /\ \A i \in 1..Len(natlog[p]) : natlog[p][i].locked
        /\ p \in holders /\ pc[q] = "acquire"

\* How often a method called a native function.
RECURSIVE CountNative(_, _)
CountNative(native, fn) ==
    IF native = <<>> THEN 0
    ELSE (IF Head(native) = fn THEN 1 ELSE 0) + CountNative(Tail(native), fn)

\* The calls that went through BadgerDict.get, and those of them whose native
\* Get returned a null pointer with length 0.
IsGet == nLast.op \in {"get", "getitem"}
NullGet == IsGet /\ nLast.null
RegSaysNotFound == ~nLast.reg.null /\ Contains(ToLower(nLast.reg.text), MsgNotFoundNeedle)
ReportedMissing == nLast.out = (IF nLast.raise_missing THEN Err("KeyError") ELSE Ok(PyNone))

\* C16, as claimed: when the native Get returns a null pointer with length 0,
\* get reports the key as missing (the default, or KeyError when raise_missing
\* or subscript access) only if the register's message contains "not found"
\* case-insensitively, and otherwise raises the BadgerError carrying the
\* register's message.
C16_NotFoundIsSoleMiss ==
    NullGet => /\ RegSaysNotFound => ReportedMissing
               /\ ReportedMissing => RegSaysNotFound
               /\ ~RegSaysNotFound
                     => /\ nLast.out.exc = "BadgerError"
                        /\ nLast.reg.text # <<>> => nLast.out.msg = nLast.reg.text

\* What get does with a register that holds a text: a message with "not found"
\* in any case is a miss, any other message is raised as it is.
Get_NonEmptyMessageClassified ==
    (NullGet /\ ~nLast.reg.null /\ nLast.reg.text # <<>>)
        => IF RegSaysNotFound THEN ReportedMissing
           ELSE nLast.out = ErrMsg("BadgerError", nLast.reg.text)

\* The calls of delete whose native Delete failed with a diagnostic that does
\* not say "not found".
FailedDelete == nLast.op = "delete" /\ nLast.status # 0 /\ ~nLast.reg.null
                    /\ nLast.reg.text # <<>> /\ ~RegSaysNotFound

\* C17, as claimed: when the native Delete returns a non-zero status and the
\* register's diagnostic does not contain "not found", delete raises the
\* BadgerError whose message is exactly that diagnostic, and the register is
\* read, and its buffer released, exactly once in the call.
C17_DeleteSurfacesDiagnosticOnce ==
    FailedDelete
        => /\ nLast.out = ErrMsg("BadgerError", nLast.reg.text)
           /\ CountNative(nLast.native, "LastError") = 1
           /\ CountNative(nLast.native, "FreeCString") = 1

\* C18: one-time library initialisation.  However the constructors of the
\* threads interleave, ctypes.CDLL has loaded the library at most once and
\* _configure_signatures has run at most once; a thread loads only with
\* _init_lock held and _lib unset; once _lib is set it stays set, and every
\* constructor that goes on to open a store found _lib set (it loaded it
\* itself or reuses the one loaded before).
C18_LibraryLoadedOnce ==
    /\ lLoads <= 1
    /\ lConfigs <= 1
    /\ lLib <=> (lLoads = 1)
    /\ lSigs => lLib
    /\ \A t \in Threads :
          /\ lpc[t] = "load" => (~lLib /\ lMutex = t)
          /\ lpc[t] = "configure" => (lLib /\ lMutex = t /\ lUsed[t] = "loaded")
          /\ lpc[t] = "open" => (lLib /\ lUsed[t] \in {"loaded", "reused"})
          /\ (lpc[t] = "open" /\ lUsed[t] = "reused") => lLoads = 1
    /\ Cardinality({t \in Threads : lUsed[t] = "loaded"}) <= 1

\* The library has been loaded and configured once, and two threads are in
\* their last constructor call, each about to open a store with the library
\* it found loaded.
C18_Witness ==
    \E t, u \in Threads :
        /\ t # u
        /\ lLoads = 1 /\ lConfigs = 1
        /\ lMade[t] = MaxCtor /\ lMade[u] = MaxCtor
        /\ lpc[t] = "open" /\ lUsed[t] = "reused"
        /\ lpc[u] = "open" /\ lUsed[u] = "reused"

\* C23: initialisation is complete before use.  A thread that has returned
\* from _ensure_library and is about to call the native Open finds the
\* signatures of the published library configured.
C23_ConfiguredBeforeUse ==
    \A t \in Threads : lpc[t] = "open" => lSigs

\* A stored envelope: at least the tag byte, and the tag is one of the three.
IsEnvelope(b) ==
    Len(b) >= 1 /\ b[1] \in {_VALUE_RAW, _VALUE_STR, _VALUE_PICKLED}

\* C25: stored envelopes are never empty.  Whatever set or a subscript
\* assignment handed to the native Set has at least one byte and starts with
\* one of the three tag bytes; so has every value in a store written only by
\* them, and a Get of a stored key, the engine not failing, hands back a
\* buffer of length at least 1, which get decodes instead of reporting a miss.
C25_EnvelopeNeverEmpty ==
    /\ eLast.passed => IsEnvelope(eLast.bytes)
    /\ \A kb \in DOMAIN db : IsEnvelope(db[kb])
    /\ (eLast.op = "get" /\ eLast.present /\ ~eLast.fault)
          => (eLast.ptr /\ eLast.len >= 1 /\ eLast.out.ok /\ eLast.out.val # Missing)

\* An empty byte string has been handed to Set as the tag byte alone and is
\* stored as that one-byte envelope.
C25_Witness ==
    /\ eLast.op \in {"set", "setitem"} /\ eLast.passed /\ eLast.out.ok
    /\ eLast.value = PyBytes(<<>>)
    /\ eLast.bytes = <<_VALUE_RAW>>
    /\ \E kb \in DOMAIN db : db[kb] = <<_VALUE_RAW>>

\* The stored bytes under kb in a store, <<>> when there are none.
EntryIn(store, kb) == IF kb \in DOMAIN store THEN store[kb] ELSE <<>>

\* C24: single-key frame of the object layer.  Whatever a call changes in
\* the store is the entry of (namespace, key) for the key the call was given:
\* save, update and delete change no other entry, also when the mutator
\* returns a replacement that carries another key, and load and exists change
\* none.
C24_SingleKeyFrame ==
    [][\A kb \in DOMAIN db \cup DOMAIN db' :
           EntryIn(db, kb) # EntryIn(db', kb)
               => /\ nsLast'.op \in {"save", "update", "delete"}
                  /\ kb = _format_key(nsLast'.ns, nsLast'.key).v]_vars

\* An update whose mutator returned an object carrying another key has stored
\* its record under the key of the call, and nothing under the other key.
C24_Witness ==
    /\ nsLast.op = "update" /\ nsLast.out.ok
    /\ nsLast.out.val.key # nsLast.key
    /\ _format_key(nsLast.ns, nsLast.key).v \in DOMAIN db
    /\ _format_key(nsLast.ns, nsLast.out.val.key).v \notin DOMAIN db

\* A caller waiting in _FileLock.acquire while another process holds the lock.
Blocked(p) == pc[p] = "acquire" /\ ~LockFree(holders, p)
\* Process p is in its n-th call.
InCall(p, n) == calls[p] = n

\* C22: progress of the blocking lock.  Under a fair scheduler every caller
\* that waits in acquire while another process holds the lock is eventually
\* granted the lock in that call, and every caller that holds the lock
\* eventually finishes that call and has released the lock.
C22_BlockedCallerProgress ==
    \A p \in Procs :
        /\ \A n \in 1..Iterations :
              (Blocked(p) /\ InCall(p, n)) ~> (p \in holders /\ InCall(p, n))
        /\ (p \in holders) ~> (pc[p] = "done" /\ p \notin holders)

\* Where the lock is taken with flock, the waiting caller is granted the lock
\* and finishes; on every platform a holder finishes and releases.
FlockGrantsEveryWaiter ==
    \A p \in Procs :
        /\ \A n \in 1..Iterations :
              (platform = "fcntl" /\ Blocked(p) /\ InCall(p, n))
                  ~> (p \in holders /\ InCall(p, n))
        /\ (p \in holders) ~> (pc[p] = "done" /\ p \notin holders)
        /\ (pc[p] = "acquire") ~> (pc[p] = "done")

\* The exceptions the code raises for a configuration error: RuntimeError
\* from _ensure_configured, ValueError from configure_storage and _open.
IsConfigurationError(out) == ~out.ok /\ out.exc \in {"RuntimeError", "ValueError"}

\* A path and the in-memory flag together, or neither of them.
BothGiven(c) == c.path = "dir" /\ c.mem
NeitherGiven(c) == c.path # "dir" /\ ~c.mem

\* C21: configuration errors.  A load, exists, save, update or delete of a
\* type whose storage was never configured ends with the configuration
\* error, with no lock taken and no store opened; and a configure_storage or
\* a store constructor called with both a path and the in-memory flag, or
\* with neither, ends with a configuration error.
C21_ConfigurationErrors ==
    /\ (gCall.op \in ObjOps /\ ~gCall.configured)
          => (gpc = "idle" /\ IsConfigurationError(gOut) /\ gLog = <<>>)
    /\ (gCall.op \in {"configure", "construct"} /\ (BothGiven(gCall) \/ NeitherGiven(gCall)))
          => IsConfigurationError(gOut)

\* The part that holds: the calls on an unconfigured type, and a configure or
\* a constructor with neither a path nor the in-memory flag, which also
\* leaves the type as it was and calls no native function.
UnconfiguredOrNeitherRejected ==
    /\ (gCall.op \in ObjOps /\ ~gCall.configured)
          => (gpc = "idle" /\ gOut = Err("RuntimeError") /\ gLog = <<>>)
    /\ (gCall.op \in {"configure", "construct"} /\ NeitherGiven(gCall))
          => (gOut = Err("ValueError") /\ gLog = <<>>)
    /\ (gCall.op = "configure" /\ NeitherGiven(gCall) /\ ~gCall.configured)
          => gCfg = Unconfigured
    /\ (gCall.op \in ObjOps /\ gLog # <<>>) => gCall.configured

====
